---- MODULE Spec2Model ----
(***************************************************************************)
(* Verification model of the Paillier layer of blockchain-based-teais-js:  *)
(* PaillierEncryption (paillierEncryption.js), CompanyPaillierKeyGenerator *)
(* (companyKeypairs), DualEncryptionProcessor (dualEncryption) and         *)
(* YearEndVerificationSystem (yearEndVerification).                        *)
(*                                                                         *)
(* Numbers.  TLC integers are 32 bit.  Keys are generated for the primes   *)
(* of the source, with n^2 arithmetic on pairs of digits; ciphertexts are  *)
(* computed under moduli that are products of small primes (n = 15, 35,    *)
(* 33, ...), where every product formed stays below 2^31.                  *)
(* Dollar amounts are JavaScript doubles                                   *)
(* in the code; here an amount is an integer number of mills (1/1000 of a  *)
(* dollar), so that Math.round(amount * 100) really rounds and the code's   *)
(* tolerance 0.01 is 10 mills.  Arithmetic on amounts is exact.            *)
(* Decimal strings (toString / bigInt(string)) are sequences of digits.    *)
(* An object is a record; a property the object lacks is a field the       *)
(* record lacks.                                                           *)
(***************************************************************************)
EXTENDS Integers, Sequences, FiniteSets, TLC

VARIABLES
  paillier,               \* the PaillierEncryption instance: p, q, n, g, lambda, mu
  cipher,                 \* values held by a caller of encrypt / add / decrypt
  companies,              \* DualEncryptionProcessor.companies
  companyLookup,          \* DualEncryptionProcessor.companyLookup (a Map)
  transactions,           \* the input transactions handed to processDualEncryption
  encryptedTransactions,  \* << >>, or <<a>> for the array a processDualEncryption returned
  dualResult,             \* the record dualEncryptAmount returned last
  verifyResult,           \* the record verifyDualEncryption returned last
  sumResult,              \* the record calculateCompanyHomomorphicSum returned last
  decryptCalls,           \* number of paillierDecrypt calls the processor made
  verificationResults,    \* YearEndVerificationSystem.verificationResults
  report,                 \* the summary performYearEndVerification returned last
  calls,                  \* number of performYearEndVerification calls made
  lookupResult,           \* << >>, or <<r>> for what getCompany / getAllCompanies returned last
  primePairs,             \* CompanyPaillierKeyGenerator.companyPrimePairs
  keypairs,               \* what the generateCompanyKeypair calls returned, in call order
  sampling                \* an encrypt call inside its do-while loop: m, r, attempts

vars == <<paillier, cipher, companies, companyLookup, transactions,
          encryptedTransactions, dualResult, verifyResult, sumResult,
          decryptCalls, verificationResults, report, calls, lookupResult,
          primePairs, keypairs, sampling>>

cipherVars == <<paillier, cipher>>
registryVars == <<companies, companyLookup, lookupResult>>
generatorVars == <<primePairs, keypairs>>
processorVars == <<transactions, encryptedTransactions, dualResult,
                   verifyResult, sumResult, decryptCalls>>
yearEndVars == <<verificationResults, report, calls>>

-----------------------------------------------------------------------------
(* Bounds *)

\* primes up to MaxPrime are tried as p and q of a PaillierEncryption instance
MaxPrime == 6

\* the processor is built over the first NumCompanies of the eight companies
NumCompanies == 3

\* the processor's paillierEncrypt draws its randomizer from 1..MaxDraw
MaxDraw == 2

\* one key generator is asked for at most MaxKeys key pairs
MaxKeys == 2

\* the table of a key generator holds a pair of numbers from 1009 up to
\* 1009 + MaxSpread
MaxSpread == 4

\* the draws of one encrypt call are counted up to MaxAttempts
MaxAttempts == 3

\* a caller hands in values up to MaxExcess past either end of a valid range
MaxExcess == 3

\* processDualEncryption is handed at most MaxBatch transactions
MaxBatch == 2

\* performYearEndVerification is called at most MaxCalls times on one system
MaxCalls == 2

\* the "#" of a transaction is drawn from 1..MaxTxId where numbers may repeat
MaxTxId == 2

-----------------------------------------------------------------------------
(* big-integer arithmetic *)

\* what an absent property or Map key reads as; no identifier equals it
undefined == "undefined"

\* JavaScript null, told apart from every decimal string
null == <<-1>>

Abs(x) == IF x < 0 THEN -x ELSE x

RECURSIVE gcd(_, _)
gcd(a, b) == IF b = 0 THEN Abs(a) ELSE gcd(b, a % b)

\* big-integer divide truncates toward zero
divide(a, b) == IF a >= 0 THEN a \div b ELSE -((-a) \div b)

\* big-integer mod takes the sign of the dividend
mod(a, m) == IF a >= 0 THEN a % m ELSE -((-a) % m)

\* every reduction inside big-integer's modPow is its mod, so that a negative
\* base gives a negative odd power
RECURSIVE modPow(_, _, _)
modPow(b, e, m) ==
  IF e = 0 THEN 1 % m
  ELSE LET h == modPow(b, e \div 2, m)
           s == mod(h * h, m)
       IN  IF e % 2 = 1 THEN mod(s * mod(b, m), m) ELSE s

Invertible(a, n) == gcd(a, n) = 1

\* the loop of modInv: <<t, r>> when newR has reached zero
RECURSIVE modInvLoop(_, _, _, _)
modInvLoop(t, newT, r, newR) ==
  IF newR = 0 THEN <<t, r>>
  ELSE LET q == r \div newR
       IN  modInvLoop(newT, t - q * newT, newR, r - q * newR)

\* defined when Invertible(a, n); big-integer throws otherwise
modInv(a, n) ==
  LET t == modInvLoop(0, 1, n, a)[1]
  IN  IF t < 0 THEN t + n ELSE t

RECURSIVE toString(_)
toString(x) == IF x < 10 THEN <<x>> ELSE Append(toString(x \div 10), x % 10)

RECURSIVE bigInt(_)
bigInt(s) == IF Len(s) = 1 THEN s[1]
             ELSE 10 * bigInt(SubSeq(s, 1, Len(s) - 1)) + s[Len(s)]

-----------------------------------------------------------------------------
(* big integers modulo n^2 for the moduli of the source, where n^2 is past *)
(* 2^31: x in [0, n^2) is the pair <<hi, lo>> of its digits to the base n, *)
(* x = hi * n + lo                                                         *)

wide(x, n) == <<x \div n, x % n>>

\* (a + b) mod n^2
wideAdd(a, b, n) ==
  LET lo == a[2] + b[2]
      carry == IF lo >= n THEN 1 ELSE 0
  IN  <<(a[1] + b[1] + carry) % n, lo - carry * n>>

\* x * y for x, y in [0, n) and n below 2^21: y is split at 2^10, so that
\* every product formed stays below 2^31
wideTimes(x, y, n) ==
  LET high == wide(x * (y \div 1024), n)
      shifted == <<(high[1] * 1024 + (high[2] * 1024) \div n) % n,
                   (high[2] * 1024) % n>>
  IN  wideAdd(shifted, wide(x * (y % 1024), n), n)

\* (a * b) mod n^2
wideMultiply(a, b, n) ==
  IF a = <<0, 0>> \/ b = <<0, 0>> THEN <<0, 0>>
  ELSE LET cross ==
             (wideTimes(a[1], b[2], n)[2] + wideTimes(a[2], b[1], n)[2]) % n
       IN  wideAdd(<<cross, 0>>, wideTimes(a[2], b[2], n), n)

\* b.modPow(e, n^2)
RECURSIVE wideModPow(_, _, _)
wideModPow(b, e, n) ==
  IF e = 0 \/ b = wide(1, n) THEN wide(1, n)
  ELSE LET h == wideModPow(b, e \div 2, n)
           sq == wideMultiply(h, h, n)
       IN  IF e % 2 = 1 THEN wideMultiply(sq, b, n) ELSE sq

\* x.minus(1).divide(n), a division that truncates
wideL(x, n) ==
  IF x[2] >= 1 THEN x[1] ELSE IF x[1] >= 1 THEN x[1] - 1 ELSE 0

-----------------------------------------------------------------------------
(* PaillierEncryption *)

L(x, n) == divide(x - 1, n)

calculateMu(g, lambda, n) ==
  modInv(wideL(wideModPow(wide(g, n), lambda, n), n), n)

\* the constructor completes only when modInv does not throw
Constructible(p, q) ==
  LET n == p * q
      lambda == ((p - 1) * (q - 1)) \div gcd(p - 1, q - 1)
  IN  Invertible(wideL(wideModPow(wide(n + 1, n), lambda, n), n), n)

\* the primes the constructor takes
constructorPrimes(useTestMode) ==
  IF useTestMode THEN <<61, 53>> ELSE <<1009, 1013>>

PaillierEncryption(p, q) ==
  LET n == p * q
      g == n + 1
      lambda == divide((p - 1) * (q - 1), gcd(p - 1, q - 1))
  IN  [p |-> p, q |-> q, n |-> n, g |-> g, lambda |-> lambda,
       mu |-> calculateMu(g, lambda, n)]

\* the r the do-while loop of encrypt leaves with: drawn from lo..hi, gcd(r, n) = 1
Randomizers(lo, hi, n) == {r \in lo..hi : gcd(r, n) = 1}

\* a slip: the factor r^n is left out
encryptWithoutRandomizer(m, r, n, g) ==
  LET n2 == n * n
      gm == modPow(g, m, n2)
  IN  mod(gm, n2)

\* c = g^m * r^n mod n^2
encryptWith(m, r, n, g) ==
  LET n2 == n * n
      gm == modPow(g, m, n2)
      rn == modPow(r, n, n2)
  IN  mod(gm * rn, n2)

\* a slip: the factor mu is left out
decryptWithoutMu(c, n, lambda, mu) ==
  LET n2 == n * n
      cLambda == modPow(c, lambda, n2)
  IN  mod(L(cLambda, n), n)

\* decrypt without the final reduction
decryptWithoutReduction(c, n, lambda, mu) ==
  L(modPow(c, lambda, n * n), n) * mu

\* m = L(c^lambda mod n^2) * mu mod n
decryptWith(c, n, lambda, mu) ==
  LET n2 == n * n
      cLambda == modPow(c, lambda, n2)
  IN  mod(L(cLambda, n) * mu, n)

encrypt(m, r) == encryptWith(m, r, paillier.n, paillier.g)

decrypt(c) == decryptWith(c, paillier.n, paillier.lambda, paillier.mu)

\* a slip: the ciphertexts are added instead of multiplied
addBySum(c1, c2) == mod(c1 + c2, paillier.n * paillier.n)

add(c1, c2) == mod(c1 * c2, paillier.n * paillier.n)

getMaxValue == paillier.n - 1

-----------------------------------------------------------------------------
(* A caller of PaillierEncryption: encrypt two values, add, decrypt *)

IsPrime(x) == x > 1 /\ \A d \in 2..(x - 1) : x % d # 0

PrimePairs == {pq \in (1..MaxPrime) \X (1..MaxPrime) :
                 /\ IsPrime(pq[1]) /\ IsPrime(pq[2]) /\ pq[1] # pq[2]
                 /\ Constructible(pq[1], pq[2])}

NoCipher == [pc |-> "new", a |-> 0, b |-> 0, ca |-> 0, cb |-> 0,
             sum |-> 0, decA |-> 0, decSum |-> 0]

\* the processor and the year-end system are not used by this caller
IdleProcessor ==
  /\ companies = << >>
  /\ companyLookup = << >>
  /\ transactions = << >>
  /\ encryptedTransactions = << >>
  /\ dualResult = << >>
  /\ verifyResult = << >>
  /\ sumResult = << >>
  /\ decryptCalls = 0
  /\ lookupResult = << >>

IdleYearEnd ==
  /\ verificationResults = << >>
  /\ report = << >>
  /\ calls = 0

NoSampling ==
  [pc |-> "idle", m |-> 0, hi |-> 0, r |-> 0, attempts |-> 0, c |-> 0]

\* no key generator was made and no encrypt call is under way
IdleGenerator ==
  /\ primePairs = << >>
  /\ keypairs = << >>
  /\ sampling = NoSampling

InitCipher ==
  /\ \E pq \in PrimePairs : paillier = PaillierEncryption(pq[1], pq[2])
  /\ cipher = NoCipher
  /\ IdleProcessor
  /\ IdleYearEnd
  /\ IdleGenerator

EncryptA ==
  /\ cipher.pc = "new"
  /\ \E m \in 0..getMaxValue :
       \E r \in Randomizers(1, paillier.n - 1, paillier.n) :
         cipher' = [cipher EXCEPT !.pc = "a", !.a = m, !.ca = encrypt(m, r)]
  /\ UNCHANGED <<paillier, registryVars, generatorVars, sampling,
                 processorVars, yearEndVars>>

EncryptB ==
  /\ cipher.pc = "a"
  /\ \E m \in 0..getMaxValue :
       \E r \in Randomizers(1, paillier.n - 1, paillier.n) :
         cipher' = [cipher EXCEPT !.pc = "b", !.b = m, !.cb = encrypt(m, r)]
  /\ UNCHANGED <<paillier, registryVars, generatorVars, sampling,
                 processorVars, yearEndVars>>

DecryptA ==
  /\ cipher.pc = "a"
  /\ cipher' = [cipher EXCEPT !.pc = "decA", !.decA = decrypt(cipher.ca)]
  /\ UNCHANGED <<paillier, registryVars, generatorVars, sampling,
                 processorVars, yearEndVars>>

Add ==
  /\ cipher.pc = "b"
  /\ cipher' = [cipher EXCEPT !.pc = "sum", !.sum = add(cipher.ca, cipher.cb)]
  /\ UNCHANGED <<paillier, registryVars, generatorVars, sampling,
                 processorVars, yearEndVars>>

DecryptSum ==
  /\ cipher.pc = "sum"
  /\ cipher' = [cipher EXCEPT !.pc = "decSum", !.decSum = decrypt(cipher.sum)]
  /\ UNCHANGED <<paillier, registryVars, generatorVars, sampling,
                 processorVars, yearEndVars>>

NextCipher == EncryptA \/ EncryptB \/ DecryptA \/ Add \/ DecryptSum

SpecCipher == InitCipher /\ [][NextCipher]_vars

-----------------------------------------------------------------------------
(* CompanyPaillierKeyGenerator and the company list *)

companyPrimePairs ==
  << <<1009, 1013>>, <<1019, 1021>>, <<1031, 1033>>, <<1039, 1049>>,
     <<1051, 1061>>, <<1063, 1069>>, <<1087, 1091>>, <<1093, 1097>> >>

\* the pairs the processor's companies are keyed with here: their squared
\* moduli stay below 2^31, so that ciphertexts are plain integers
scaledPrimePairs ==
  << <<3, 5>>, <<5, 7>>, <<3, 11>>, <<7, 11>>,
     <<5, 13>>, <<7, 13>>, <<3, 17>>, <<11, 13>> >>

companyIds ==
  <<"TC001", "GM002", "SC003", "DS004", "AM005", "RD006", "FS007", "TS008">>

companyNames ==
  <<"TechCorp Solutions", "Global Manufacturing Inc", "Supply Chain Logistics",
    "Digital Services Ltd", "Advanced Materials Co",
    "Retail Distribution Network", "Financial Services Group",
    "Transportation Systems">>

\* a slip: lambda is (p - 1)(q - 1), not divided by the gcd
keypairWithPhi(p, q, companyIndex) ==
  LET n == p * q
      g == n + 1
      lambda == (p - 1) * (q - 1)
      mu == calculateMu(g, lambda, n)
  IN  [publicKey |-> [n |-> n, g |-> g],
       privateKey |-> [n |-> n, lambda |-> lambda, mu |-> mu],
       metadata |-> [p |-> p, q |-> q, companyIndex |-> companyIndex]]

\* the key pair generateCompanyKeypair makes of the primes p and q
keypairFromPrimes(p, q, companyIndex) ==
  LET n == p * q
      g == n + 1
      lambda == divide((p - 1) * (q - 1), gcd(p - 1, q - 1))
      mu == calculateMu(g, lambda, n)
  IN  [publicKey |-> [n |-> n, g |-> g],
       privateKey |-> [n |-> n, lambda |-> lambda, mu |-> mu],
       metadata |-> [p |-> p, q |-> q, companyIndex |-> companyIndex]]

\* companyIndex counts from 1 here, from 0 in the source
generateCompanyKeypair(companyIndex) ==
  keypairFromPrimes(primePairs[companyIndex][1], primePairs[companyIndex][2],
                    companyIndex)

\* calculateMu throws inside generateCompanyKeypair: L is not invertible
generateCompanyKeypairThrows(companyIndex) ==
  ~Constructible(primePairs[companyIndex][1], primePairs[companyIndex][2])

\* the key pair of company i of the processor
scaledKeypair(i) ==
  keypairFromPrimes(scaledPrimePairs[i][1], scaledPrimePairs[i][2], i)

\* one company object per entry of the company list, with its own key pair
getCompanyKeypairs ==
  [i \in 1..NumCompanies |->
     LET keypair == scaledKeypair(i)
     IN  [id |-> companyIds[i], name |-> companyNames[i],
          paillierPublicKey |-> keypair.publicKey,
          paillierPrivateKey |-> keypair.privateKey]]

-----------------------------------------------------------------------------
(* DualEncryptionProcessor *)

\* Map.set: a later set of the same key replaces the earlier value
MapSet(m, k, v) == [x \in (DOMAIN m) \cup {k} |-> IF x = k THEN v ELSE m[x]]

MapHas(m, k) == k \in DOMAIN m

\* Map.get of a key the Map has; it is undefined exactly when ~MapHas(m, k)
MapGet(m, k) == m[k]

RECURSIVE initializeLookup(_, _)

\* a slip: the first company is registered under the key undefined as well
initializeLookupWithUndefined(cs, k) ==
  IF k = 0 THEN << >>
  ELSE MapSet(MapSet(MapSet(initializeLookup(cs, k - 1), cs[k].id, cs[k]),
                     cs[k].name, cs[k]),
              undefined, cs[1])

initializeLookup(cs, k) ==
  IF k = 0 THEN << >>
  ELSE MapSet(MapSet(initializeLookup(cs, k - 1), cs[k].id, cs[k]),
              cs[k].name, cs[k])

Has(obj, f) == f \in DOMAIN obj

\* obj[f] for an identifier property, undefined when the property is absent
Prop(obj, f) == IF Has(obj, f) THEN obj[f] ELSE undefined

\* bigInt(obj[f]) for a decimal string property; bigInt(undefined) is 0
bigIntProp(obj, f) == IF Has(obj, f) THEN bigInt(obj[f]) ELSE 0

\* !x for an identifier read from a transaction
Falsy(x) == x = undefined

\* Math.round(amount * 100), amount in mills
amountToCents(amount) == (amount + 5) \div 10

paillierEncrypt(plaintext, r, publicKey) ==
  encryptWith(plaintext, r, publicKey.n, publicKey.g)

paillierDecrypt(ciphertext, privateKey) ==
  decryptWith(ciphertext, privateKey.n, privateKey.lambda, privateKey.mu)

\* the randomizers a paillierEncrypt call of the processor draws from
Draws(publicKey) ==
  Randomizers(1, IF publicKey.n < MaxDraw THEN publicKey.n ELSE MaxDraw,
              publicKey.n)

dualEncryptThrows(senderId, recipientId) ==
  \/ ~MapHas(companyLookup, senderId)
  \/ ~MapHas(companyLookup, recipientId)

\* a slip: both ciphertexts are made under the sender's public key
dualEncryptAmountSenderKey(amount, senderId, recipientId, rs, rr) ==
  LET sender == MapGet(companyLookup, senderId)
      recipient == MapGet(companyLookup, recipientId)
      amountInCents == amountToCents(amount)
  IN  [originalAmount |-> amount,
       amountInCents |-> amountInCents,
       senderId |-> senderId,
       recipientId |-> recipientId,
       senderCompany |-> sender.name,
       recipientCompany |-> recipient.name,
       senderEncrypted |->
         toString(paillierEncrypt(amountInCents, rs, sender.paillierPublicKey)),
       recipientEncrypted |->
         toString(paillierEncrypt(amountInCents, rr, sender.paillierPublicKey)),
       senderPaillierN |-> toString(sender.paillierPublicKey.n),
       recipientPaillierN |-> toString(recipient.paillierPublicKey.n)]

\* rs and rr are the randomizers of the two paillierEncrypt calls
dualEncryptAmount(amount, senderId, recipientId, rs, rr) ==
  LET sender == MapGet(companyLookup, senderId)
      recipient == MapGet(companyLookup, recipientId)
      amountInCents == amountToCents(amount)
      senderEncrypted ==
        paillierEncrypt(amountInCents, rs, sender.paillierPublicKey)
      recipientEncrypted ==
        paillierEncrypt(amountInCents, rr, recipient.paillierPublicKey)
  IN  [originalAmount |-> amount,
       amountInCents |-> amountInCents,
       senderId |-> senderId,
       recipientId |-> recipientId,
       senderCompany |-> sender.name,
       recipientCompany |-> recipient.name,
       senderEncrypted |-> toString(senderEncrypted),
       recipientEncrypted |-> toString(recipientEncrypted),
       senderPaillierN |-> toString(sender.paillierPublicKey.n),
       recipientPaillierN |-> toString(recipient.paillierPublicKey.n)]

\* one element of the map in processDualEncryption
enhanceTransaction(transaction, rs, rr) ==
  LET senderId == Prop(transaction, "sender_id")
      recipientId == Prop(transaction, "recipient_id")
  IN  IF Falsy(senderId) \/ Falsy(recipientId) THEN transaction
      ELSE IF dualEncryptThrows(senderId, recipientId)
      THEN [dual_encrypted |-> FALSE,
            encryption_error |-> "Invalid company IDs"] @@ transaction
      ELSE LET dualEncryption ==
                 dualEncryptAmount(transaction.amount, senderId, recipientId,
                                   rs, rr)
           IN  [HE_pk_sender |-> dualEncryption.senderEncrypted,
                HE_pk_recipient |-> dualEncryption.recipientEncrypted,
                dual_encryption_metadata |->
                  [senderPaillierN |-> dualEncryption.senderPaillierN,
                   recipientPaillierN |-> dualEncryption.recipientPaillierN,
                   encryptionMethod |-> "dual_paillier",
                   originalAmount |-> dualEncryption.originalAmount,
                   amountInCents |-> dualEncryption.amountInCents],
                dual_encrypted |-> TRUE] @@ transaction

\* the randomizer pairs one transaction's encryption can draw
DrawPairs(transaction) ==
  LET senderId == Prop(transaction, "sender_id")
      recipientId == Prop(transaction, "recipient_id")
  IN  IF Falsy(senderId) \/ Falsy(recipientId)
         \/ dualEncryptThrows(senderId, recipientId)
      THEN {<<1, 1>>}
      ELSE Draws(MapGet(companyLookup, senderId).paillierPublicKey)
             \X Draws(MapGet(companyLookup, recipientId).paillierPublicKey)

\* a slip: after the first unknown party the rest of the batch is given up
processDualEncryptionGivingUp(txs, draws) ==
  [i \in 1..Len(txs) |->
     IF \E j \in 1..(i - 1) :
          /\ ~Falsy(Prop(txs[j], "sender_id"))
          /\ ~Falsy(Prop(txs[j], "recipient_id"))
          /\ dualEncryptThrows(txs[j].sender_id, txs[j].recipient_id)
     THEN [dual_encrypted |-> FALSE,
           encryption_error |-> "Invalid company IDs"] @@ txs[i]
     ELSE enhanceTransaction(txs[i], draws[i][1], draws[i][2])]

processDualEncryption(txs, draws) ==
  [i \in 1..Len(txs) |-> enhanceTransaction(txs[i], draws[i][1], draws[i][2])]

verifyThrows(companyId) == ~MapHas(companyLookup, companyId)

\* the branch of verifyDualEncryption that reaches paillierDecrypt
verifyDecrypts(transaction, companyId) ==
  \/ Prop(transaction, "sender_id") = companyId
  \/ Prop(transaction, "recipient_id") = companyId

\* the <<cents, amount>> exactly one cent apart whose doubles cents / 100 and
\* amount differ by less than the double 0.01: |0.21 - 0.2| is
\* 0.009999999999999981 and |0.41 - 0.4| is 0.009999999999999953, while
\* |0.19 - 0.2|, |0.39 - 0.4| and |0.01 - 0| are not below 0.01
roundedBelowOneCent == {<<21, 200>>, <<41, 400>>}

\* Math.abs(decryptedCents / 100 - amount) < 0.01 in doubles, amount in mills:
\* the rounding of the quotient and of the difference decides only when the
\* two are exactly one cent apart
amountMatches(decryptedCents, amount) ==
  LET exact == Abs(decryptedCents * 10 - amount)
  IN  IF exact = 10 THEN <<decryptedCents, amount>> \in roundedBelowOneCent
      ELSE exact < 10

\* a slip: a company that is not the sender is taken for the recipient
verifyWithoutThirdParty(transaction, companyId) ==
  LET company == MapGet(companyLookup, companyId)
      isSender == Prop(transaction, "sender_id") = companyId
      encryptedAmount ==
        IF isSender THEN bigIntProp(transaction, "HE_pk_sender")
        ELSE bigIntProp(transaction, "HE_pk_recipient")
      decryptedCents ==
        paillierDecrypt(encryptedAmount, company.paillierPrivateKey)
      matches == amountMatches(decryptedCents, transaction.amount)
  IN  [companyId |-> companyId,
       companyName |-> company.name,
       transactionId |-> transaction.num,
       originalAmount |-> transaction.amount,
       role |-> IF isSender THEN "sender" ELSE "recipient",
       canDecrypt |-> TRUE,
       decryptedAmount |-> decryptedCents * 10,
       decryptedCents |-> decryptedCents,
       verified |-> matches,
       message |-> IF matches THEN "Amount verification successful"
                   ELSE "Amount mismatch detected"]

\* the catch branch is left out: no decimal string makes bigInt or
\* paillierDecrypt throw
verifyDualEncryption(transaction, companyId) ==
  LET company == MapGet(companyLookup, companyId)
      result == [companyId |-> companyId,
                 companyName |-> company.name,
                 transactionId |-> transaction.num,
                 originalAmount |-> transaction.amount]
      isSender == Prop(transaction, "sender_id") = companyId
      isRecipient == Prop(transaction, "recipient_id") = companyId
  IN  IF ~isSender /\ ~isRecipient
      THEN [role |-> "third_party", canDecrypt |-> FALSE, verified |-> FALSE,
            message |-> "Company is not involved in this transaction"]
             @@ result
      ELSE LET encryptedAmount ==
                 IF isSender THEN bigIntProp(transaction, "HE_pk_sender")
                 ELSE bigIntProp(transaction, "HE_pk_recipient")
               role == IF isSender THEN "sender" ELSE "recipient"
               decryptedCents ==
                 paillierDecrypt(encryptedAmount, company.paillierPrivateKey)
               matches == amountMatches(decryptedCents, transaction.amount)
           IN  [role |-> role, canDecrypt |-> TRUE,
                decryptedAmount |-> decryptedCents * 10,
                decryptedCents |-> decryptedCents,
                verified |-> matches,
                message |-> IF matches
                            THEN "Amount verification successful"
                            ELSE "Amount mismatch detected"] @@ result

RECURSIVE reducePaillierSum(_, _, _, _)

\* a slip: the running value and the next ciphertext are added
reducePaillierSumAdding(encryptedValues, i, sum, n2) ==
  IF i > Len(encryptedValues) THEN sum
  ELSE reducePaillierSum(encryptedValues, i + 1,
                         IF sum = 0 THEN encryptedValues[i]
                         ELSE mod(sum + encryptedValues[i], n2),
                         n2)

\* a slip: the running value is dropped for the next ciphertext
reducePaillierSumKeepingLast(encryptedValues, i, sum, n2) ==
  IF i > Len(encryptedValues) THEN sum
  ELSE reducePaillierSum(encryptedValues, i + 1, encryptedValues[i], n2)

reducePaillierSum(encryptedValues, i, sum, n2) ==
  IF i > Len(encryptedValues) THEN sum
  ELSE reducePaillierSum(encryptedValues, i + 1,
                         IF sum = 0 THEN encryptedValues[i]
                         ELSE mod(sum * encryptedValues[i], n2),
                         n2)

calculatePaillierSum(encryptedValues, publicKey) ==
  IF Len(encryptedValues) = 0 THEN 0
  ELSE reducePaillierSum(encryptedValues, 1, 0, publicKey.n * publicKey.n)

RECURSIVE sumAmounts(_, _)
sumAmounts(txs, i) ==
  IF i = 0 THEN 0 ELSE sumAmounts(txs, i - 1) + txs[i].amount

sumThrows(companyId) == ~MapHas(companyLookup, companyId)

\* a slip: the sentinel is returned when the matching amounts add up to zero
calculateCompanyHomomorphicSumByTotal(txs, companyId, direction) ==
  LET company == MapGet(companyLookup, companyId)
      IsRelevant(tx) ==
        IF direction = "sent" THEN Prop(tx, "sender_id") = companyId
        ELSE Prop(tx, "recipient_id") = companyId
      relevantTransactions == SelectSeq(txs, IsRelevant)
      actualSum == sumAmounts(relevantTransactions, Len(relevantTransactions))
  IN  IF actualSum = 0
      THEN [companyId |-> companyId, companyName |-> company.name,
            direction |-> direction, transactionCount |-> 0,
            homomorphicSum |-> null, actualSum |-> 0]
      ELSE LET encryptedAmounts ==
                 [i \in 1..Len(relevantTransactions) |->
                    IF direction = "sent"
                    THEN bigIntProp(relevantTransactions[i], "HE_pk_sender")
                    ELSE bigIntProp(relevantTransactions[i],
                                    "HE_pk_recipient")]
               homomorphicSum ==
                 calculatePaillierSum(encryptedAmounts,
                                      company.paillierPublicKey)
           IN  [companyId |-> companyId, companyName |-> company.name,
                direction |-> direction,
                transactionCount |-> Len(relevantTransactions),
                homomorphicSum |-> toString(homomorphicSum),
                actualSum |-> actualSum,
                transactions |->
                  [i \in 1..Len(relevantTransactions) |->
                     [id |-> relevantTransactions[i].num,
                      amount |-> relevantTransactions[i].amount]]]

calculateCompanyHomomorphicSum(txs, companyId, direction) ==
  LET company == MapGet(companyLookup, companyId)
      IsRelevant(tx) ==
        IF direction = "sent" THEN Prop(tx, "sender_id") = companyId
        ELSE Prop(tx, "recipient_id") = companyId
      relevantTransactions == SelectSeq(txs, IsRelevant)
  IN  IF Len(relevantTransactions) = 0
      THEN [companyId |-> companyId, companyName |-> company.name,
            direction |-> direction, transactionCount |-> 0,
            homomorphicSum |-> null, actualSum |-> 0]
      ELSE LET encryptedAmounts ==
                 [i \in 1..Len(relevantTransactions) |->
                    IF direction = "sent"
                    THEN bigIntProp(relevantTransactions[i], "HE_pk_sender")
                    ELSE bigIntProp(relevantTransactions[i],
                                    "HE_pk_recipient")]
               homomorphicSum ==
                 calculatePaillierSum(encryptedAmounts,
                                      company.paillierPublicKey)
               actualSum ==
                 sumAmounts(relevantTransactions, Len(relevantTransactions))
           IN  [companyId |-> companyId, companyName |-> company.name,
                direction |-> direction,
                transactionCount |-> Len(relevantTransactions),
                homomorphicSum |-> toString(homomorphicSum),
                actualSum |-> actualSum,
                transactions |->
                  [i \in 1..Len(relevantTransactions) |->
                     [id |-> relevantTransactions[i].num,
                      amount |-> relevantTransactions[i].amount]]]

\* Map.get: the company, or undefined for a key the Map lacks
getCompany(companyId) ==
  IF MapHas(companyLookup, companyId)
  THEN [returned |-> MapGet(companyLookup, companyId)]
  ELSE [returned |-> undefined]

getAllCompanies == companies

-----------------------------------------------------------------------------
(* YearEndVerificationSystem *)

generateCompanyFinancialStatement(company, txs) ==
  LET sentSum == calculateCompanyHomomorphicSum(txs, company.id, "sent")
      receivedSum == calculateCompanyHomomorphicSum(txs, company.id, "received")
      actualSentTotal == sentSum.actualSum
      actualReceivedTotal == receivedSum.actualSum
      \* Math.abs(x - y) < 0.01, in mills
      sentVerified == Abs(actualSentTotal - sentSum.actualSum) < 10
      receivedVerified == Abs(actualReceivedTotal - receivedSum.actualSum) < 10
  IN  [companyId |-> company.id,
       companyName |-> company.name,
       transactionCounts |-> [sent |-> sentSum.transactionCount,
                              received |-> receivedSum.transactionCount],
       actualSums |-> [sent |-> actualSentTotal,
                       received |-> actualReceivedTotal],
       homomorphicSums |-> [sent |-> sentSum.homomorphicSum,
                            received |-> receivedSum.homomorphicSum],
       verified |-> sentVerified /\ receivedVerified,
       verificationDetails |->
         [sentVerified |-> sentVerified,
          receivedVerified |-> receivedVerified,
          sentDiscrepancy |-> actualSentTotal - sentSum.actualSum,
          receivedDiscrepancy |-> actualReceivedTotal - receivedSum.actualSum]]

RECURSIVE sumSent(_, _)
sumSent(companyResults, i) ==
  IF i = 0 THEN 0
  ELSE sumSent(companyResults, i - 1) + companyResults[i].actualSums.sent

RECURSIVE sumReceived(_, _)
sumReceived(companyResults, i) ==
  IF i = 0 THEN 0
  ELSE sumReceived(companyResults, i - 1) + companyResults[i].actualSums.received

\* the forEach over the transactions: <<uniqueTransactions, duplicateTransactions>>
RECURSIVE scanTransactionIds(_, _)

\* a slip: a repeated number is skipped without being recorded
scanTransactionIdsSilent(txs, i) ==
  IF i = 0 THEN << {}, << >> >>
  ELSE LET before == scanTransactionIds(txs, i - 1)
           txId == txs[i].num
       IN  IF txId \in before[1] THEN before
           ELSE <<before[1] \cup {txId}, before[2]>>

scanTransactionIds(txs, i) ==
  IF i = 0 THEN << {}, << >> >>
  ELSE LET before == scanTransactionIds(txs, i - 1)
           txId == txs[i].num
       IN  IF txId \in before[1]
           THEN <<before[1], Append(before[2], txId)>>
           ELSE <<before[1] \cup {txId}, before[2]>>

verifyNetworkIntegrity(txs, companyResults) ==
  LET totalSent == sumSent(companyResults, Len(companyResults))
      totalReceived == sumReceived(companyResults, Len(companyResults))
      networkBalance == totalReceived - totalSent
      \* Math.abs(networkBalance) < 0.01, in mills
      networkBalanced == Abs(networkBalance) < 10
      scan == scanTransactionIds(txs, Len(txs))
      uniqueTransactions == scan[1]
      duplicateTransactions == scan[2]
  IN  [totalNetworkVolume |-> totalSent,
       totalSent |-> totalSent,
       totalReceived |-> totalReceived,
       networkBalance |-> networkBalance,
       networkBalanced |-> networkBalanced,
       transactionConsistency |-> Len(duplicateTransactions) = 0,
       uniqueTransactionCount |-> Cardinality(uniqueTransactions),
       duplicateTransactions |-> duplicateTransactions,
       allCompaniesVerified |->
         \A i \in 1..Len(companyResults) : companyResults[i].verified]

bulletinEntry(company, companyVerification) ==
  [companyId |-> company.id,
   companyName |-> company.name,
   publicKey |-> toString(company.paillierPublicKey.n),
   declaredSentTotal |-> companyVerification.actualSums.sent,
   declaredReceivedTotal |-> companyVerification.actualSums.received,
   homomorphicSentHash |-> companyVerification.homomorphicSums.sent,
   homomorphicReceivedHash |-> companyVerification.homomorphicSums.received,
   verificationStatus |-> companyVerification.verified,
   transactionCount |-> companyVerification.transactionCounts.sent
                          + companyVerification.transactionCounts.received,
   netPosition |-> companyVerification.actualSums.received
                     - companyVerification.actualSums.sent]

\* <<this.verificationResults after the call, the summary returned>>
performYearEndVerification(results, txs) ==
  LET allCompanies == companies
      statements ==
        [i \in 1..Len(allCompanies) |->
           generateCompanyFinancialStatement(allCompanies[i], txs)]
      pushed == results \o statements
      networkVerification == verifyNetworkIntegrity(txs, pushed)
  IN  <<pushed,
        [totalCompanies |-> Len(allCompanies),
         totalTransactions |-> Len(txs),
         verificationResults |-> pushed,
         networkIntegrity |-> networkVerification,
         publicBulletinBoard |->
           [i \in 1..Len(allCompanies) |->
              bulletinEntry(allCompanies[i], statements[i])]]>>

-----------------------------------------------------------------------------
(* Callers of the processor and of the year-end system *)

IdleCipher ==
  /\ paillier = << >>
  /\ cipher = NoCipher

\* the state the DualEncryptionProcessor constructor leaves
InitRegistry ==
  /\ companies = getCompanyKeypairs
  /\ companyLookup = initializeLookup(getCompanyKeypairs, NumCompanies)

InitProcessor ==
  /\ InitRegistry
  /\ encryptedTransactions = << >>
  /\ dualResult = << >>
  /\ verifyResult = << >>
  /\ sumResult = << >>
  /\ decryptCalls = 0
  /\ lookupResult = << >>

unknownId == "XX999"

\* amounts in mills: $0.00, $0.045, $0.20 and $0.40, that is 0, 5 (rounded up),
\* 20 and 40 cents; 20 wraps modulo n = 15 and 40 modulo every company's n
Amounts == {0, 45, 200, 400}

Identifiers ==
  {companyIds[i] : i \in 1..NumCompanies}
    \cup {companyNames[i] : i \in 1..NumCompanies} \cup {unknownId}

\* a row as the callers build it: "#" is num, the ids may be missing
Rows(nums, amounts, senders, recipients) ==
  [num : nums, amount : amounts, sender_id : senders, recipient_id : recipients]
    \cup [num : nums, amount : amounts, recipient_id : recipients]
    \cup [num : nums, amount : amounts, sender_id : senders]

\* one transaction, any identifiers
InitDual ==
  /\ IdleCipher
  /\ InitProcessor
  /\ IdleYearEnd
  /\ IdleGenerator
  /\ \E row \in Rows({1}, Amounts, Identifiers, Identifiers) :
       transactions = <<row>>

\* the array processDualEncryption returned
Encrypted == encryptedTransactions[1]

\* the caller took the row's amount and ids and called dualEncryptAmount
DualEncryptAmount ==
  /\ \E i \in 1..Len(transactions) :
       LET senderId == Prop(transactions[i], "sender_id")
           recipientId == Prop(transactions[i], "recipient_id")
       IN  IF dualEncryptThrows(senderId, recipientId)
           THEN dualResult' = <<[threw |-> TRUE,
                                 error |-> "Invalid company IDs",
                                 senderId |-> senderId,
                                 recipientId |-> recipientId]>>
           ELSE \E d \in DrawPairs(transactions[i]) :
                  dualResult' =
                    <<dualEncryptAmount(transactions[i].amount, senderId,
                                        recipientId, d[1], d[2])>>
  /\ UNCHANGED <<cipherVars, registryVars, generatorVars, sampling,
                 transactions,
                 encryptedTransactions, verifyResult, sumResult, decryptCalls,
                 yearEndVars>>

\* the batch is encrypted once
ProcessDualEncryption ==
  /\ encryptedTransactions = << >>
  /\ \E draws \in [1..Len(transactions) -> (1..MaxDraw) \X (1..MaxDraw)] :
       /\ \A i \in 1..Len(transactions) :
            draws[i] \in DrawPairs(transactions[i])
       /\ encryptedTransactions' =
            <<processDualEncryption(transactions, draws)>>
  /\ UNCHANGED <<cipherVars, registryVars, generatorVars, sampling,
                 transactions, dualResult,
                 verifyResult, sumResult, decryptCalls, yearEndVars>>

\* decryptCalls counts the paillierDecrypt calls of this call
VerifyDualEncryption ==
  /\ encryptedTransactions # << >>
  /\ \E i \in 1..Len(Encrypted) :
       \E companyId \in Identifiers :
         IF verifyThrows(companyId)
         THEN /\ verifyResult' = <<[threw |-> TRUE,
                                    error |-> "Invalid company ID",
                                    companyId |-> companyId, index |-> i]>>
              /\ decryptCalls' = 0
         ELSE /\ verifyResult' =
                   <<[index |-> i] @@
                     verifyDualEncryption(Encrypted[i], companyId)>>
              /\ decryptCalls' =
                   IF verifyDecrypts(Encrypted[i], companyId) THEN 1 ELSE 0
  /\ UNCHANGED <<cipherVars, registryVars, generatorVars, sampling,
                 transactions,
                 encryptedTransactions, dualResult, sumResult, yearEndVars>>

NextDual == DualEncryptAmount \/ ProcessDualEncryption \/ VerifyDualEncryption

SpecDual == InitDual /\ [][NextDual]_vars

-----------------------------------------------------------------------------
(* A batch: encrypt it, then accumulate per company or verify the year *)

RECURSIVE Batches(_, _, _, _)
\* the sequences of k rows, row i numbered i
Batches(k, amounts, senders, recipients) ==
  IF k = 0 THEN {<< >>}
  ELSE {Append(b, row) :
          b \in Batches(k - 1, amounts, senders, recipients),
          row \in [num : {k}, amount : amounts, sender_id : senders,
                   recipient_id : recipients]}

\* $0.045 and $0.20 between the first two companies, the first also under
\* its name; the other companies stay without activity
InitBatch ==
  /\ IdleCipher
  /\ InitProcessor
  /\ IdleYearEnd
  /\ IdleGenerator
  /\ \E k \in 0..MaxBatch :
       transactions \in
         Batches(k, {45, 200},
                 {companyIds[1], companyIds[2], companyNames[1]},
                 {companyIds[1], companyIds[2]})

\* the caller accumulates once over the encrypted batch
CalculateCompanyHomomorphicSum ==
  /\ encryptedTransactions # << >>
  /\ sumResult = << >>
  /\ \E companyId \in Identifiers :
       \E direction \in {"sent", "received"} :
         sumResult' =
           IF sumThrows(companyId)
           THEN <<[threw |-> TRUE, error |-> "Invalid company ID",
                   companyId |-> companyId, direction |-> direction]>>
           ELSE <<calculateCompanyHomomorphicSum(Encrypted, companyId,
                                                 direction)>>
  /\ UNCHANGED <<cipherVars, registryVars, generatorVars, sampling,
                 transactions,
                 encryptedTransactions, dualResult, verifyResult,
                 decryptCalls, yearEndVars>>

NextSum == ProcessDualEncryption \/ CalculateCompanyHomomorphicSum

SpecSum == InitBatch /\ [][NextSum]_vars

IsDualEncrypted(tx) == Has(tx, "dual_encrypted") /\ tx.dual_encrypted

\* encryptedTransactions.filter(tx => tx.dual_encrypted), what the callers
\* hand to performYearEndVerification
successfulEncryptions == SelectSeq(Encrypted, IsDualEncrypted)

PerformYearEndVerification ==
  /\ encryptedTransactions # << >>
  /\ calls < MaxCalls
  /\ LET outcome ==
           performYearEndVerification(verificationResults,
                                      successfulEncryptions)
     IN  /\ verificationResults' = outcome[1]
         /\ report' = <<outcome[2]>>
  /\ calls' = calls + 1
  /\ UNCHANGED <<cipherVars, registryVars, generatorVars, sampling,
                 processorVars>>

NextYearEnd == ProcessDualEncryption \/ PerformYearEndVerification

SpecYearEnd == InitBatch /\ [][NextYearEnd]_vars

RECURSIVE NumberedBatches(_, _, _, _, _)
\* the sequences of k rows with any numbers
NumberedBatches(k, nums, amounts, senders, recipients) ==
  IF k = 0 THEN {<< >>}
  ELSE {Append(b, row) :
          b \in NumberedBatches(k - 1, nums, amounts, senders, recipients),
          row \in [num : nums, amount : amounts, sender_id : senders,
                   recipient_id : recipients]}

\* transaction numbers may repeat
InitNumbered ==
  /\ IdleCipher
  /\ InitProcessor
  /\ IdleYearEnd
  /\ IdleGenerator
  /\ \E k \in 0..MaxBatch :
       transactions \in
         NumberedBatches(k, 1..MaxTxId, {45}, {companyIds[1]},
                         {companyIds[2]})

SpecNumbered == InitNumbered /\ [][NextYearEnd]_vars

\* zero and non-zero amounts from the first company to the second; the other
\* companies, and each of the two in one direction, stay without activity
InitZero ==
  /\ IdleCipher
  /\ InitProcessor
  /\ IdleYearEnd
  /\ IdleGenerator
  /\ \E k \in 0..MaxBatch :
       transactions \in
         Batches(k, {0, 45}, {companyIds[1]}, {companyIds[2]})

NextSentinel ==
  \/ ProcessDualEncryption
  \/ CalculateCompanyHomomorphicSum
  \/ PerformYearEndVerification

SpecSentinel == InitZero /\ [][NextSentinel]_vars

\* the integers 0..MaxForged are tried in the place of a ciphertext
MaxForged == 3

\* amounts of whole cents between the first two companies
InitTamper ==
  /\ IdleCipher
  /\ InitProcessor
  /\ IdleYearEnd
  /\ IdleGenerator
  /\ \E row \in [num : {1}, amount : {0, 200, 400},
                 sender_id : {companyIds[1], companyIds[2]},
                 recipient_id : {companyIds[1], companyIds[2]}] :
       transactions = <<row>>

\* what a ciphertext of a record may have been replaced by: an encryption,
\* under the party's key, of the recorded cents, of a neighbour or of another
\* recorded amount, or a small integer
ForgedValues(publicKey) ==
  {paillierEncrypt(m, r, publicKey) :
     m \in {0, 1, 19, 20, 21, 39, 40, 41}, r \in Draws(publicKey)}
    \cup 0..MaxForged

\* the record reaches verifyDualEncryption with a ciphertext replaced
TamperCiphertext ==
  /\ encryptedTransactions # << >>
  /\ verifyResult = << >>
  /\ \E i \in 1..Len(Encrypted) :
       /\ IsDualEncrypted(Encrypted[i])
       /\ \/ \E v \in ForgedValues(MapGet(companyLookup, Encrypted[i].sender_id)
                                     .paillierPublicKey) :
               encryptedTransactions' =
                 <<[Encrypted EXCEPT ![i].HE_pk_sender = toString(v)]>>
          \/ \E v \in ForgedValues(MapGet(companyLookup,
                                          Encrypted[i].recipient_id)
                                     .paillierPublicKey) :
               encryptedTransactions' =
                 <<[Encrypted EXCEPT ![i].HE_pk_recipient = toString(v)]>>
  /\ UNCHANGED <<cipherVars, registryVars, generatorVars, sampling,
                 transactions, dualResult,
                 verifyResult, sumResult, decryptCalls, yearEndVars>>

NextTamper ==
  ProcessDualEncryption \/ TamperCiphertext \/ VerifyDualEncryption

SpecTamper == InitTamper /\ [][NextTamper]_vars

-----------------------------------------------------------------------------
(* A processor built over any company list, and lookups in it *)

RECURSIVE CompanyLists(_)
\* the arrays of k companies getCompanyKeypairs may hand to the constructor:
\* ids and names may repeat, the company at position i holds key pair i
CompanyLists(k) ==
  IF k = 0 THEN {<< >>}
  ELSE {Append(cs, [id |-> id, name |-> name,
                    paillierPublicKey |-> scaledKeypair(k).publicKey,
                    paillierPrivateKey |-> scaledKeypair(k).privateKey]) :
          cs \in CompanyLists(k - 1),
          id \in {companyIds[1], companyIds[2]},
          name \in {companyNames[1], companyNames[2]}}

\* the state the constructor leaves over such a list
InitListed ==
  /\ IdleCipher
  /\ IdleYearEnd
  /\ IdleGenerator
  /\ \E k \in 0..NumCompanies : companies \in CompanyLists(k)
  /\ companyLookup = initializeLookup(companies, Len(companies))
  /\ transactions = << >>
  /\ encryptedTransactions = << >>
  /\ dualResult = << >>
  /\ verifyResult = << >>
  /\ sumResult = << >>
  /\ decryptCalls = 0
  /\ lookupResult = << >>

GetCompany ==
  /\ \E companyId \in Identifiers :
       lookupResult' = <<[companyId |-> companyId] @@ getCompany(companyId)>>
  /\ UNCHANGED <<cipherVars, companies, companyLookup, generatorVars,
                 sampling, processorVars, yearEndVars>>

GetAllCompanies ==
  /\ lookupResult' = <<[all |-> getAllCompanies]>>
  /\ UNCHANGED <<cipherVars, companies, companyLookup, generatorVars,
                 sampling, processorVars, yearEndVars>>

NextRegistry == GetCompany \/ GetAllCompanies

SpecRegistry == InitListed /\ [][NextRegistry]_vars

-----------------------------------------------------------------------------
(* encryptAmounts of excelOperations: every amount is encrypted twice by   *)
(* one PaillierEncryption instance                                         *)

\* one element of the map in encryptAmounts; r1 and r2 are the randomizers
\* the two encrypt calls left their loops with
encryptAmountsRow(row, r1, r2) ==
  LET maxValue == paillier.n
      amountInCents == amountToCents(row.amount)
      encryptableAmount == mod(amountInCents, maxValue)
  IN  [HE_pk_sender |-> toString(encrypt(encryptableAmount, r1)),
       HE_pk_recipient |-> toString(encrypt(encryptableAmount, r2)),
       original_amount_cents |-> amountInCents,
       encryptable_amount |-> toString(encryptableAmount)] @@ row

encryptAmounts(data, draws) ==
  [i \in 1..Len(data) |-> encryptAmountsRow(data[i], draws[i][1], draws[i][2])]

\* either a PaillierEncryption instance and a sheet to encrypt, or a
\* processor and one transaction
InitRandom ==
  \/ InitCipher
  \/ InitDual

\* the sheet is encrypted once; cipher keeps the rows encryptAmounts
\* returned and, beside them, the randomizers its encrypt calls drew
EncryptAmounts ==
  /\ paillier # << >>
  /\ cipher.pc = "new"
  /\ \E amount \in Amounts :
       \E r1 \in Randomizers(1, paillier.n - 1, paillier.n) :
         \E r2 \in Randomizers(1, paillier.n - 1, paillier.n) :
           LET data == <<[amount |-> amount]>>
               draws == << <<r1, r2>> >>
           IN  cipher' = [pc |-> "encrypted",
                          rows |-> encryptAmounts(data, draws),
                          draws |-> draws]
  /\ UNCHANGED <<paillier, registryVars, generatorVars, sampling,
                 processorVars, yearEndVars>>

NextRandom == EncryptAmounts \/ DualEncryptAmount

SpecRandom == InitRandom /\ [][NextRandom]_vars

-----------------------------------------------------------------------------
(* A caller whose batch has unknown parties and rows without ids *)

RECURSIVE MixedBatches(_)
MixedBatches(k) ==
  IF k = 0 THEN {<< >>}
  ELSE {Append(b, row) :
          b \in MixedBatches(k - 1),
          row \in Rows({k}, {200}, {companyIds[1], unknownId},
                       {companyIds[2], unknownId})}

InitMixed ==
  /\ IdleCipher
  /\ InitProcessor
  /\ IdleYearEnd
  /\ IdleGenerator
  /\ \E k \in 0..MaxBatch : transactions \in MixedBatches(k)

NextMixed == DualEncryptAmount \/ ProcessDualEncryption

SpecMixed == InitMixed /\ [][NextMixed]_vars

-----------------------------------------------------------------------------
(* processAccounting: encrypt a sheet under the single key, fold the      *)
(* sender column, decrypt the total and compare it with the plain sum     *)

\* the single-column fold stopped after the first row
calculateHomomorphicSumOfFirst(data) ==
  IF Len(data) = 0 THEN 0 ELSE bigIntProp(data[1], "HE_pk_sender")

RECURSIVE addEncryptedAmounts(_, _, _)
addEncryptedAmounts(sum, encryptedAmounts, i) ==
  IF i > Len(encryptedAmounts) THEN sum
  ELSE addEncryptedAmounts(add(sum, encryptedAmounts[i]), encryptedAmounts,
                           i + 1)

calculateHomomorphicSum(data) ==
  IF Len(data) = 0 THEN 0
  ELSE LET encryptedAmounts ==
             [i \in 1..Len(data) |-> bigIntProp(data[i], "HE_pk_sender")]
       IN  addEncryptedAmounts(encryptedAmounts[1], encryptedAmounts, 2)

\* data.reduce((sum, row) => sum.add(encryptableAmount).mod(n), bigInt(0))
RECURSIVE encryptableSum(_, _, _)
encryptableSum(sum, data, i) ==
  IF i > Len(data) THEN sum
  ELSE LET amountInCents == amountToCents(data[i].amount)
           encryptableAmount == mod(amountInCents, paillier.n)
       IN  encryptableSum(mod(sum + encryptableAmount, paillier.n), data,
                          i + 1)

RECURSIVE Sheets(_)
Sheets(k) ==
  IF k = 0 THEN {<< >>}
  ELSE {Append(sheet, row) :
          sheet \in Sheets(k - 1), row \in [num : {k}, amount : Amounts]}

\* const encryptedData = encryptAmounts(data, paillier)
EncryptData ==
  /\ cipher.pc = "new"
  /\ \E k \in 0..MaxBatch :
       \E data \in Sheets(k) :
         \E draws \in [1..k -> Randomizers(1, MaxDraw, paillier.n)
                                  \X Randomizers(1, MaxDraw, paillier.n)] :
           cipher' = [pc |-> "encryptedData", data |-> data,
                      encryptedData |-> encryptAmounts(data, draws)]
  /\ UNCHANGED <<paillier, registryVars, generatorVars, sampling,
                 processorVars, yearEndVars>>

\* const totalSum = calculateHomomorphicSum(encryptedData, paillier)
CalculateHomomorphicSum ==
  /\ cipher.pc = "encryptedData"
  /\ cipher' = [pc |-> "totalSum", data |-> cipher.data,
                encryptedData |-> cipher.encryptedData,
                totalSum |-> calculateHomomorphicSum(cipher.encryptedData)]
  /\ UNCHANGED <<paillier, registryVars, generatorVars, sampling,
                 processorVars, yearEndVars>>

\* decryptedSum, actualEncryptableSum and isVerified
VerifyHomomorphicSum ==
  /\ cipher.pc = "totalSum"
  /\ LET decryptedSum == decrypt(cipher.totalSum)
         actualEncryptableSum == encryptableSum(0, cipher.data, 1)
     IN  cipher' = [pc |-> "isVerified", data |-> cipher.data,
                    encryptedData |-> cipher.encryptedData,
                    totalSum |-> cipher.totalSum,
                    decryptedSum |-> decryptedSum,
                    actualEncryptableSum |-> actualEncryptableSum,
                    isVerified |-> decryptedSum = actualEncryptableSum]
  /\ UNCHANGED <<paillier, registryVars, generatorVars, sampling,
                 processorVars, yearEndVars>>

NextAccounting ==
  EncryptData \/ CalculateHomomorphicSum \/ VerifyHomomorphicSum

SpecAccounting == InitCipher /\ [][NextAccounting]_vars

-----------------------------------------------------------------------------
(* A caller that uses every operation of the processor and the year-end   *)
(* verification on one batch, in any order                                *)

\* payments of $0.045 and of multiples of $0.20 from the first company to
\* the second, listed by growing amount
InitOperations ==
  /\ IdleCipher
  /\ InitProcessor
  /\ IdleYearEnd
  /\ IdleGenerator
  /\ \E k \in 0..MaxBatch :
       /\ transactions \in
            Batches(k, {45} \cup {200 * j : j \in 1..(MaxBatch - 1)},
                    {companyIds[1]}, {companyIds[2]})
       /\ \A i \in 1..(k - 1) :
            transactions[i].amount < transactions[i + 1].amount

NextOperations ==
  \/ DualEncryptAmount
  \/ ProcessDualEncryption
  \/ VerifyDualEncryption
  \/ CalculateCompanyHomomorphicSum
  \/ PerformYearEndVerification

SpecOperations == InitOperations /\ [][NextOperations]_vars

-----------------------------------------------------------------------------
(* A caller that hands PaillierEncryption any integer: a plaintext of n or *)
(* more to encrypt, a ciphertext from outside [0, n^2) to decrypt or add   *)

GivenCiphertexts ==
  (0 - MaxExcess)..(paillier.n * paillier.n - 1 + MaxExcess)

GivenPlaintexts == 0..(paillier.n + MaxExcess)

\* the private key of the instance, as paillierDecrypt takes it
instancePrivateKey ==
  [n |-> paillier.n, lambda |-> paillier.lambda, mu |-> paillier.mu]

\* encrypt(m), m not kept below n
EncryptGiven ==
  /\ cipher.pc = "new"
  /\ \E m \in GivenPlaintexts :
       \E r \in Randomizers(1, paillier.n - 1, paillier.n) :
         cipher' = [pc |-> "encrypted", m |-> m, c |-> encrypt(m, r)]
  /\ UNCHANGED <<paillier, registryVars, generatorVars, sampling,
                 processorVars, yearEndVars>>

\* decrypt(c) or paillierDecrypt(c, privateKey) of what encrypt returned
DecryptEncrypted ==
  /\ cipher.pc = "encrypted"
  /\ \E callee \in {"decrypt", "paillierDecrypt"} :
       cipher' = [pc |-> "decrypted", m |-> cipher.m, c |-> cipher.c,
                  callee |-> callee,
                  returned |->
                    IF callee = "decrypt" THEN decrypt(cipher.c)
                    ELSE paillierDecrypt(cipher.c, instancePrivateKey)]
  /\ UNCHANGED <<paillier, registryVars, generatorVars, sampling,
                 processorVars, yearEndVars>>

\* decrypt(c) or paillierDecrypt(c, privateKey) of any integer c
DecryptGiven ==
  /\ cipher.pc = "new"
  /\ \E c \in GivenCiphertexts, callee \in {"decrypt", "paillierDecrypt"} :
       cipher' = [pc |-> "decryptedGiven", c |-> c, callee |-> callee,
                  returned |->
                    IF callee = "decrypt" THEN decrypt(c)
                    ELSE paillierDecrypt(c, instancePrivateKey)]
  /\ UNCHANGED <<paillier, registryVars, generatorVars, sampling,
                 processorVars, yearEndVars>>

\* add(c1, c2), c1 any integer and c2 at an end of the valid range
AddGiven ==
  /\ cipher.pc = "new"
  /\ \E c1 \in GivenCiphertexts :
       \E c2 \in {0 - 1, 1, paillier.n * paillier.n - 1,
                  paillier.n * paillier.n} :
         cipher' = [pc |-> "addedGiven", c1 |-> c1, c2 |-> c2,
                    returned |-> add(c1, c2)]
  /\ UNCHANGED <<paillier, registryVars, generatorVars, sampling,
                 processorVars, yearEndVars>>

NextGiven == EncryptGiven \/ DecryptEncrypted \/ DecryptGiven \/ AddGiven

SpecGiven == InitCipher /\ [][NextGiven]_vars

-----------------------------------------------------------------------------
(* One encrypt call, draw by draw.  encrypt of PaillierEncryption draws    *)
(* from 1..n-1, paillierEncrypt of the processor from 1..n; sampling.hi is *)
(* the upper end.  The code keeps no count of its draws: attempts is kept  *)
(* beside the call, and stays at MaxAttempts once it got there.            *)

StartEncrypt ==
  /\ sampling.pc = "idle"
  /\ \E m \in 0..getMaxValue, hi \in {paillier.n - 1, paillier.n} :
       sampling' = [NoSampling EXCEPT !.pc = "draw", !.m = m, !.hi = hi]
  /\ UNCHANGED <<cipherVars, registryVars, generatorVars,
                 processorVars, yearEndVars>>

\* one pass of the do-while loop: r is drawn, then the condition is tested
DrawRandomizer ==
  /\ sampling.pc = "draw"
  /\ \E r \in 1..sampling.hi :
       sampling' =
         [sampling EXCEPT
            !.r = r,
            !.attempts = IF @ < MaxAttempts THEN @ + 1 ELSE @,
            !.pc = IF gcd(r, paillier.n) = 1 THEN "drawn" ELSE "draw"]
  /\ UNCHANGED <<cipherVars, registryVars, generatorVars,
                 processorVars, yearEndVars>>

\* the ciphertext is computed with the r the loop left with
FinishEncrypt ==
  /\ sampling.pc = "drawn"
  /\ sampling' = [sampling EXCEPT !.pc = "done",
                                  !.c = encrypt(sampling.m, sampling.r)]
  /\ UNCHANGED <<cipherVars, registryVars, generatorVars,
                 processorVars, yearEndVars>>

InitSampling ==
  /\ \E pq \in PrimePairs : paillier = PaillierEncryption(pq[1], pq[2])
  /\ cipher = NoCipher
  /\ IdleProcessor
  /\ IdleYearEnd
  /\ IdleGenerator

NextSampling == StartEncrypt \/ DrawRandomizer \/ FinishEncrypt

SpecSampling == InitSampling /\ [][NextSampling]_vars

-----------------------------------------------------------------------------
(* CompanyPaillierKeyGenerator and the constructor of PaillierEncryption, *)
(* over the primes of the source                                          *)

\* new CompanyPaillierKeyGenerator(); no PaillierEncryption instance yet
InitKeys ==
  /\ paillier = << >>
  /\ cipher = NoCipher
  /\ IdleProcessor
  /\ IdleYearEnd
  /\ primePairs = companyPrimePairs
  /\ keypairs = << >>
  /\ sampling = NoSampling

\* one call of generateCompanyKeypair; keypairs keeps what each call gave
GenerateCompanyKeypair ==
  /\ Len(keypairs) < MaxKeys
  /\ \E companyIndex \in 1..(Len(primePairs) + 1) :
       keypairs' = Append(keypairs,
         IF companyIndex >= Len(primePairs) + 1
         THEN [threw |-> "Error", companyIndex |-> companyIndex]
         ELSE IF generateCompanyKeypairThrows(companyIndex)
         THEN [threw |-> "Error", companyIndex |-> companyIndex]
         ELSE generateCompanyKeypair(companyIndex))
  /\ UNCHANGED <<cipherVars, registryVars, primePairs, sampling,
                 processorVars, yearEndVars>>

\* new PaillierEncryption(useTestMode)
NewPaillierEncryption ==
  /\ paillier = << >>
  /\ \E useTestMode \in BOOLEAN :
       LET primes == constructorPrimes(useTestMode)
       IN  /\ Constructible(primes[1], primes[2])
           /\ paillier' = PaillierEncryption(primes[1], primes[2])
  /\ UNCHANGED <<cipher, registryVars, generatorVars, sampling,
                 processorVars, yearEndVars>>

\* paillierEncrypt of the generator, with the r its loop left with
generatorEncrypt(plaintext, r, publicKey) ==
  LET n == publicKey.n
      gm == wideModPow(wide(publicKey.g, n), plaintext, n)
      rn == wideModPow(wide(r, n), n, n)
  IN  wideMultiply(gm, rn, n)

\* paillierDecrypt of the generator
generatorDecrypt(ciphertext, privateKey) ==
  LET n == privateKey.n
      cLambda == wideModPow(ciphertext, privateKey.lambda, n)
  IN  wideTimes(wideL(cLambda, n), privateKey.mu, n)[2]

testValue == 12345

\* testKeypair, r being the randomizer its encryption drew
testKeypair(keypair, r) ==
  LET encrypted == generatorEncrypt(testValue, r, keypair.publicKey)
      decrypted == generatorDecrypt(encrypted, keypair.privateKey)
  IN  decrypted = testValue

\* the randomizers tried for the encryption inside testKeypair
TestDraws(n) == {r \in 1..MaxDraw : gcd(r, n) = 1}

\* the loop of generateAllCompanyKeypairs from entry i on: the key pairs
\* pushed, or the entry at which the call threw
RECURSIVE generateAllCompanyKeypairs(_, _, _)
generateAllCompanyKeypairs(i, rs, companyKeypairs) ==
  IF i > Len(primePairs) THEN companyKeypairs
  ELSE IF generateCompanyKeypairThrows(i)
  THEN <<[threw |-> "Error", companyIndex |-> i]>>
  ELSE IF ~testKeypair(generateCompanyKeypair(i), rs[i])
  THEN <<[threw |-> "Error", companyIndex |-> i]>>
  ELSE generateAllCompanyKeypairs(i + 1, rs,
         Append(companyKeypairs, generateCompanyKeypair(i)))

\* one call of generateAllCompanyKeypairs on a generator not used before
GenerateAllCompanyKeypairs ==
  /\ keypairs = << >>
  /\ \E rs \in [1..Len(primePairs) -> 1..MaxDraw] :
       /\ \A i \in 1..Len(primePairs) :
            rs[i] \in TestDraws(primePairs[i][1] * primePairs[i][2])
       /\ keypairs' = generateAllCompanyKeypairs(1, rs, << >>)
  /\ UNCHANGED <<cipherVars, registryVars, primePairs, sampling,
                 processorVars, yearEndVars>>

NextKeys == GenerateCompanyKeypair \/ NewPaillierEncryption

\* the numbers an entry of companyPrimePairs is taken from, primes or not
candidateFactors == 1009..(1009 + MaxSpread)

\* a generator whose table holds one pair of candidate factors
InitModuli ==
  /\ paillier = << >>
  /\ cipher = NoCipher
  /\ IdleProcessor
  /\ IdleYearEnd
  /\ \E p \in candidateFactors, q \in candidateFactors :
       primePairs = << <<p, q>> >>
  /\ keypairs = << >>
  /\ sampling = NoSampling

NextModuli == GenerateCompanyKeypair \/ GenerateAllCompanyKeypairs

SpecModuli == InitModuli /\ [][NextModuli]_vars

SpecKeys == InitKeys /\ [][NextKeys]_vars

-----------------------------------------------------------------------------
(* The claims *)

\* C1: decrypting the homomorphic sum of encrypt(a) and encrypt(b) gives
\* (a + b) mod n, for every key, all a, b in [0, n) and all randomizers.
HomomorphicAddition ==
  cipher.pc = "decSum" => cipher.decSum = (cipher.a + cipher.b) % paillier.n

\* a sum that wrapped around n was decrypted
HomomorphicAdditionWitness ==
  /\ cipher.pc = "decSum"
  /\ cipher.a + cipher.b >= paillier.n
  /\ cipher.decSum = cipher.a + cipher.b - paillier.n
  /\ cipher.ca # cipher.cb

\* C2: decrypt(encrypt(m)) = m for every key, every m in [0, n) and every
\* randomizer encrypt can draw.
RoundTrip ==
  cipher.pc = "decA" => cipher.decA = cipher.a

\* the largest plaintext, encrypted with a randomizer other than 1, came back
RoundTripWitness ==
  /\ cipher.pc = "decA"
  /\ cipher.a = paillier.n - 1
  /\ cipher.decA = paillier.n - 1
  /\ cipher.ca # encrypt(cipher.a, 1)

\* C3: the two ciphertexts dualEncryptAmount returns decrypt, each under its
\* party's private key, to round(amount * 100) mod that party's n; when the
\* cents are below both moduli both decrypt to the cents themselves.
DualEncryptionRecovers ==
  \A k \in 1..Len(dualResult) :
    LET d == dualResult[k]
    IN  ~Has(d, "threw") =>
          LET sender == companyLookup[d.senderId]
              recipient == companyLookup[d.recipientId]
              \* round(amount * 100): the c with c - 0.5 <= amount * 100 < c + 0.5
              cents == CHOOSE c \in 0..(d.originalAmount \div 10 + 1) :
                         /\ 10 * c - 5 <= d.originalAmount
                         /\ d.originalAmount < 10 * c + 5
              bySender == paillierDecrypt(bigInt(d.senderEncrypted),
                                          sender.paillierPrivateKey)
              byRecipient == paillierDecrypt(bigInt(d.recipientEncrypted),
                                             recipient.paillierPrivateKey)
          IN  /\ bySender = cents % sender.paillierPublicKey.n
              /\ byRecipient = cents % recipient.paillierPublicKey.n
              /\ (cents < sender.paillierPublicKey.n
                    /\ cents < recipient.paillierPublicKey.n)
                   => (bySender = cents /\ byRecipient = cents)

\* 20 cents from the company with n = 15 to the company with n = 35: the
\* sender recovers 5, the recipient 20
DualEncryptionRecoversWitness ==
  /\ dualResult # << >>
  /\ ~Has(dualResult[1], "threw")
  /\ dualResult[1].amountInCents = 20
  /\ dualResult[1].senderId = companyIds[1]
  /\ dualResult[1].recipientId = companyIds[2]
  /\ paillierDecrypt(bigInt(dualResult[1].senderEncrypted),
                     companies[1].paillierPrivateKey) = 5
  /\ paillierDecrypt(bigInt(dualResult[1].recipientEncrypted),
                     companies[2].paillierPrivateKey) = 20

CounterpartyVerification ==
  \A k \in 1..Len(verifyResult) :
    LET v == verifyResult[k]
    IN  (~Has(v, "threw") /\ IsDualEncrypted(Encrypted[v.index])) =>
          LET tx == Encrypted[v.index]
              n == companyLookup[v.companyId].paillierPublicKey.n
              cents == CHOOSE c \in 0..(tx.amount \div 10 + 1) :
                         10 * c - 5 <= tx.amount /\ tx.amount < 10 * c + 5
          IN  (v.companyId = tx.sender_id \/ v.companyId = tx.recipient_id)
                => /\ v.verified = (v.decryptedCents = cents % n)
                   /\ v.verified

\* C6: with at least one matching transaction, the homomorphic sum that
\* calculateCompanyHomomorphicSum returns decrypts, under the party's private
\* key, to the sum of the matching amounts in cents modulo the party's n.
AccumulatorCorrectness ==
  \A k \in 1..Len(sumResult) :
    LET r == sumResult[k]
    IN  (~Has(r, "threw") /\ r.transactionCount > 0) =>
          LET company == companyLookup[r.companyId]
              n == company.paillierPublicKey.n
              Party(tx) == IF r.direction = "sent" THEN tx.sender_id
                           ELSE tx.recipient_id
              Cents(amount) == CHOOSE c \in 0..(amount \div 10 + 1) :
                                 10 * c - 5 <= amount /\ amount < 10 * c + 5
              total[i \in 0..Len(Encrypted)] ==
                IF i = 0 THEN 0
                ELSE total[i - 1]
                       + (IF Party(Encrypted[i]) = r.companyId
                          THEN Cents(Encrypted[i].amount) ELSE 0)
          IN  paillierDecrypt(bigInt(r.homomorphicSum),
                              company.paillierPrivateKey)
                = total[Len(Encrypted)] % n

\* two transactions of 20 cents sent by the company with n = 15: the
\* accumulator decrypts to 40 mod 15 = 10
AccumulatorCorrectnessWitness ==
  /\ sumResult # << >>
  /\ ~Has(sumResult[1], "threw")
  /\ sumResult[1].companyId = companyIds[1]
  /\ sumResult[1].direction = "sent"
  /\ sumResult[1].transactionCount = 2
  /\ sumResult[1].actualSum = 400
  /\ paillierDecrypt(bigInt(sumResult[1].homomorphicSum),
                     companies[1].paillierPrivateKey) = 10

\* C7: in the year-end report a party is verified if and only if its declared
\* sent total and its declared received total both match, within one cent,
\* the totals recovered by decrypting its homomorphic accumulators.
PartyReconciliation ==
  \A k \in 1..Len(report) :
    \A i \in 1..Len(report[k].publicBulletinBoard) :
      LET entry == report[k].publicBulletinBoard[i]
          company == companyLookup[entry.companyId]
          \* the total an accumulator holds, in mills; none when it is null
          Recovered(hash) ==
            IF hash = null THEN 0
            ELSE 10 * paillierDecrypt(bigInt(hash), company.paillierPrivateKey)
      IN  entry.verificationStatus
            = (/\ Abs(entry.declaredSentTotal
                        - Recovered(entry.homomorphicSentHash)) <= 10
               /\ Abs(entry.declaredReceivedTotal
                        - Recovered(entry.homomorphicReceivedHash)) <= 10)

\* C8: for transactions with pairwise distinct numbers whose senders and
\* recipients are all registered, the report has networkBalanced true and no
\* duplicate transactions.
NetworkConservation ==
  \A k \in 1..Len(report) :
    LET txs == successfulEncryptions
    IN  (/\ \A i, j \in 1..Len(txs) : i # j => txs[i].num # txs[j].num
         /\ \A i \in 1..Len(txs) :
              /\ MapHas(companyLookup, txs[i].sender_id)
              /\ MapHas(companyLookup, txs[i].recipient_id))
          => /\ report[k].networkIntegrity.networkBalanced
             /\ report[k].networkIntegrity.duplicateTransactions = << >>

\* C9: duplicateTransactions lists every occurrence of a transaction number
\* after its first, transactionConsistency is false exactly when that list is
\* not empty, and uniqueTransactionCount plus the length of the list is the
\* number of input transactions.
DuplicateReporting ==
  \A k \in 1..Len(report) :
    LET txs == successfulEncryptions
        integrity == report[k].networkIntegrity
        Repeats(i) == \E j \in 1..(i - 1) : txs[j].num = txs[i].num
        positions == SelectSeq([i \in 1..Len(txs) |-> i], Repeats)
    IN  /\ integrity.duplicateTransactions
             = [p \in 1..Len(positions) |-> txs[positions[p]].num]
        /\ integrity.transactionConsistency
             = (integrity.duplicateTransactions = << >>)
        /\ integrity.uniqueTransactionCount
             + Len(integrity.duplicateTransactions) = Len(txs)

\* a report over two transactions with the same number
DuplicateReportingWitness ==
  /\ report # << >>
  /\ Len(successfulEncryptions) = 2
  /\ report[1].networkIntegrity.duplicateTransactions = <<2>>
  /\ ~report[1].networkIntegrity.transactionConsistency
  /\ report[1].networkIntegrity.uniqueTransactionCount = 1

\* C10: whatever calls were made before, the report of a call holds one
\* verification result per registered company and the totalSent, totalReceived
\* and totalNetworkVolume of a first call on a fresh system with that input.
StatelessReconciliation ==
  \A k \in 1..Len(report) :
    LET fresh == performYearEndVerification(<< >>, successfulEncryptions)[2]
    IN  /\ Len(report[k].verificationResults) = Len(companies)
        /\ report[k].networkIntegrity.totalSent
             = fresh.networkIntegrity.totalSent
        /\ report[k].networkIntegrity.totalReceived
             = fresh.networkIntegrity.totalReceived
        /\ report[k].networkIntegrity.totalNetworkVolume
             = fresh.networkIntegrity.totalNetworkVolume

\* C11: calculateCompanyHomomorphicSum returns the sentinel (homomorphicSum
\* null, transactionCount 0, total 0) exactly when no transaction matches the
\* party and direction; with a matching transaction, also when every matching
\* amount is zero, it returns a ciphertext, not null; and at year end a company
\* without activity in a direction is reported verified for it, with a null
\* accumulator.
SentinelOnNoActivity ==
  /\ \A k \in 1..Len(sumResult) :
       LET r == sumResult[k]
       IN  ~Has(r, "threw") =>
             LET Matches(tx) ==
                   IF r.direction = "sent"
                   THEN Prop(tx, "sender_id") = r.companyId
                   ELSE Prop(tx, "recipient_id") = r.companyId
                 matching == SelectSeq(Encrypted, Matches)
                 n == companyLookup[r.companyId].paillierPublicKey.n
             IN  /\ (r.homomorphicSum = null) <=> (Len(matching) = 0)
                 /\ Len(matching) = 0
                      => (r.transactionCount = 0 /\ r.actualSum = 0)
                 /\ Len(matching) > 0
                      => /\ r.transactionCount = Len(matching)
                         /\ bigInt(r.homomorphicSum) \in 1..(n * n - 1)
  /\ \A k \in 1..Len(report) :
       \A i \in 1..Len(report[k].verificationResults) :
         LET statement == report[k].verificationResults[i]
             Sends(tx) == tx.sender_id = statement.companyId
             Receives(tx) == tx.recipient_id = statement.companyId
             sent == SelectSeq(successfulEncryptions, Sends)
             received == SelectSeq(successfulEncryptions, Receives)
         IN  /\ Len(sent) = 0
                  => /\ statement.homomorphicSums.sent = null
                     /\ statement.verificationDetails.sentVerified
             /\ Len(received) = 0
                  => /\ statement.homomorphicSums.received = null
                     /\ statement.verificationDetails.receivedVerified
             /\ (Len(sent) = 0 /\ Len(received) = 0) => statement.verified

\* two transactions of $0.00 sent by the first company: a ciphertext, with a
\* total of zero
SentinelOnNoActivityWitness ==
  /\ sumResult # << >>
  /\ ~Has(sumResult[1], "threw")
  /\ sumResult[1].companyId = companyIds[1]
  /\ sumResult[1].direction = "sent"
  /\ sumResult[1].transactionCount = 2
  /\ sumResult[1].actualSum = 0
  /\ sumResult[1].homomorphicSum # null
  /\ report # << >>
  /\ report[1].verificationResults[3].homomorphicSums.sent = null
  /\ report[1].verificationResults[3].verified

\* C12: for a registered claimant that is the sender or the recipient of a
\* record whose ciphertext for that role does not decrypt to the recorded
\* amount in cents, verifyDualEncryption raises no error and returns verified
\* false.
MismatchReported ==
  \A k \in 1..Len(verifyResult) :
    LET v == verifyResult[k]
        tx == Encrypted[v.index]
    IN  (/\ IsDualEncrypted(tx)
         /\ MapHas(companyLookup, v.companyId)
         /\ (v.companyId = tx.sender_id \/ v.companyId = tx.recipient_id)) =>
          LET ciphertext == IF v.companyId = tx.sender_id THEN tx.HE_pk_sender
                            ELSE tx.HE_pk_recipient
              decrypted ==
                paillierDecrypt(bigInt(ciphertext),
                                companyLookup[v.companyId].paillierPrivateKey)
              cents == CHOOSE c \in 0..(tx.amount \div 10 + 1) :
                         10 * c - 5 <= tx.amount /\ tx.amount < 10 * c + 5
          IN  decrypted # cents => (~Has(v, "threw") /\ ~v.verified)

\* C13: for every claimant identifier that is neither the sender nor the
\* recipient of the transaction, registered or not, verifyDualEncryption raises
\* no error and returns role third_party, canDecrypt false, verified false.
ThirdPartyForNonParticipant ==
  \A k \in 1..Len(verifyResult) :
    LET v == verifyResult[k]
        tx == Encrypted[v.index]
    IN  (/\ v.companyId # Prop(tx, "sender_id")
         /\ v.companyId # Prop(tx, "recipient_id"))
          => /\ ~Has(v, "threw")
             /\ v.role = "third_party"
             /\ ~v.canDecrypt
             /\ ~v.verified

\* C14: dualEncryptAmount with a sender or a recipient identifier that is not
\* a key of the registry (no company's id or name) fails with an error and
\* returns no ciphertext under either key, and the registry stays as the
\* constructor left it.
UnknownPartyOnEncryption ==
  /\ companies = getCompanyKeypairs
  /\ companyLookup = initializeLookup(companies, Len(companies))
  /\ \A k \in 1..Len(dualResult) :
       LET d == dualResult[k]
           Registered(x) ==
             \E i \in 1..Len(companies) :
               companies[i].id = x \/ companies[i].name = x
       IN  (~Registered(d.senderId) \/ ~Registered(d.recipientId))
             => /\ Has(d, "threw")
                /\ ~Has(d, "senderEncrypted")
                /\ ~Has(d, "recipientEncrypted")

\* a registered sender and a recipient that is not registered
UnknownPartyOnEncryptionWitness ==
  /\ dualResult # << >>
  /\ dualResult[1].senderId = companyIds[1]
  /\ dualResult[1].recipientId = unknownId
  /\ Has(dualResult[1], "threw")

\* C15: getCompany of an identifier that was never registered fails with an
\* error; it does not return an empty or undefined value.
LookupOfAbsentFails ==
  \A k \in 1..Len(lookupResult) :
    LET r == lookupResult[k]
    IN  (Has(r, "companyId") /\ ~MapHas(companyLookup, r.companyId))
          => Has(r, "threw")

WellFormedKey(p, q, n, g, lambda, mu) ==
  LET gLambda == wideModPow(wide(n + 1, n), lambda, n)
  IN  /\ n = p * q
      /\ g = n + 1
      /\ lambda > 0
      /\ lambda % (p - 1) = 0
      /\ lambda % (q - 1) = 0
      /\ lambda * gcd(p - 1, q - 1) = (p - 1) * (q - 1)
      /\ gLambda[2] = 1
      /\ mu \in 0..(n - 1)
      /\ wideTimes(mu, gLambda[1], n)[2] = 1
      /\ (p = 1009 /\ q = 1013 => n = 1022117)

\* C17: every key pair generateCompanyKeypair returns for a pair (p, q) of
\* its table, and every PaillierEncryption instance, has n = p * q,
\* g = n + 1, lambda = lcm(p - 1, q - 1) = (p - 1)(q - 1) / gcd(p - 1, q - 1)
\* and mu * L(g^lambda mod n^2) = 1 (mod n), where n divides
\* g^lambda mod n^2 - 1 exactly; the public and the private key carry the same
\* n; the primes 1009 and 1013 give n = 1022117; key pairs of different
\* companies have different moduli.
KeyGeneration ==
  /\ \A k \in 1..Len(keypairs) :
       LET keypair == keypairs[k]
       IN  IF Has(keypair, "threw")
           THEN keypair.companyIndex \notin 1..Len(primePairs)
           ELSE
             /\ keypair.metadata.companyIndex \in 1..Len(primePairs)
             /\ <<keypair.metadata.p, keypair.metadata.q>> =
                  primePairs[keypair.metadata.companyIndex]
             /\ keypair.publicKey.n = keypair.privateKey.n
             /\ WellFormedKey(keypair.metadata.p, keypair.metadata.q,
                              keypair.publicKey.n, keypair.publicKey.g,
                              keypair.privateKey.lambda, keypair.privateKey.mu)
  /\ \A j, k \in 1..Len(keypairs) :
       /\ Has(keypairs[j], "publicKey") /\ Has(keypairs[k], "publicKey")
       /\ keypairs[j].metadata.companyIndex # keypairs[k].metadata.companyIndex
       => keypairs[j].publicKey.n # keypairs[k].publicKey.n
  /\ paillier # << >> =>
       /\ <<paillier.p, paillier.q>> \in {<<61, 53>>, <<1009, 1013>>}
       /\ WellFormedKey(paillier.p, paillier.q, paillier.n, paillier.g,
                        paillier.lambda, paillier.mu)

\* two companies' key pairs and the instance over 1009 and 1013 were made
KeyGenerationWitness ==
  /\ Len(keypairs) = 2
  /\ Has(keypairs[1], "publicKey") /\ Has(keypairs[2], "publicKey")
  /\ keypairs[1].metadata.companyIndex # keypairs[2].metadata.companyIndex
  /\ paillier # << >>
  /\ paillier.n = 1022117

RandomizedEncryption ==
  /\ cipher.pc = "encrypted" =>
       \A i \in 1..Len(cipher.rows) :
         LET row == cipher.rows[i]
             m == bigInt(row.encryptable_amount)
             cs == bigInt(row.HE_pk_sender)
             cr == bigInt(row.HE_pk_recipient)
             admissible == Randomizers(1, paillier.n - 1, paillier.n)
         IN  /\ cipher.draws[i][1] # cipher.draws[i][2] => cs # cr
             /\ {r \in admissible : encrypt(m, r) = cs} = {cipher.draws[i][1]}
             /\ {r \in admissible : encrypt(m, r) = cr} = {cipher.draws[i][2]}
             /\ decrypt(cs) = m
             /\ decrypt(cr) = m
  /\ (dualResult # << >> /\ ~Has(dualResult[1], "threw")) =>
       LET result == dualResult[1]
           sender == MapGet(companyLookup, result.senderId)
           recipient == MapGet(companyLookup, result.recipientId)
           UsedFor(c, company) ==
             {r \in Randomizers(1, company.paillierPublicKey.n,
                                company.paillierPublicKey.n) :
                toString(paillierEncrypt(result.amountInCents, r,
                                         company.paillierPublicKey)) = c}
           Plain(c, company) ==
             paillierDecrypt(bigInt(c), company.paillierPrivateKey)
       IN  /\ Cardinality(UsedFor(result.senderEncrypted, sender)) = 1
           /\ Cardinality(UsedFor(result.recipientEncrypted, recipient)) = 1
           /\ Plain(result.senderEncrypted, sender) =
                result.amountInCents % sender.paillierPublicKey.n
           /\ Plain(result.recipientEncrypted, recipient) =
                result.amountInCents % recipient.paillierPublicKey.n

\* one amount was encrypted twice with two different randomizers
RandomizedEncryptionWitness ==
  /\ cipher.pc = "encrypted"
  /\ cipher.draws[1][1] # cipher.draws[1][2]
  /\ cipher.rows[1].HE_pk_sender # cipher.rows[1].HE_pk_recipient
  /\ cipher.rows[1].original_amount_cents >= paillier.n

\* C20: the r an encrypt call computes its ciphertext with is in 1..n-1 and
\* coprime to n, and the call does not stay in its loop past its bound of
\* draws: once MaxAttempts draws were made and the last one failed, the call
\* has stopped with RandomnessExhaustedError.
BoundedSampling ==
  /\ sampling.pc \in {"drawn", "done"} =>
       /\ sampling.r \in 1..(paillier.n - 1)
       /\ gcd(sampling.r, paillier.n) = 1
  /\ sampling.attempts >= MaxAttempts =>
       sampling.pc \in {"drawn", "done", "error"}

\* C21: decrypt and add given a ciphertext outside [0, n^2), negative or
\* n^2 or more, fail with MalformedCiphertextError and return no value.
MalformedCiphertextRejected ==
  LET InRange(c) == c \in 0..(paillier.n * paillier.n - 1)
      Rejected == /\ Has(cipher, "threw")
                  /\ cipher.threw = "MalformedCiphertextError"
                  /\ ~Has(cipher, "returned")
  IN  /\ (cipher.pc = "decryptedGiven" /\ ~InRange(cipher.c)) => Rejected
      /\ (cipher.pc = "addedGiven"
            /\ (~InRange(cipher.c1) \/ ~InRange(cipher.c2))) => Rejected

\* the names under which private key material is held
PrivateMaterial == {"paillierPrivateKey", "privateKey", "lambda", "mu", "p", "q"}

Exposes(obj) == DOMAIN obj \cap PrivateMaterial # {}

\* C22: no value a public operation of the processor or of the year-end
\* system returned holds private key material: not the company getCompany
\* returned, none of the companies getAllCompanies returned, no record of an
\* encryption, a verification or a sum, and no entry of the bulletin board.
PrivateKeysStayPrivate ==
  /\ \A k \in 1..Len(lookupResult) :
       LET r == lookupResult[k]
       IN  /\ (Has(r, "companyId") /\ MapHas(companyLookup, r.companyId))
                => ~Exposes(r.returned)
           /\ Has(r, "all") =>
                \A i \in 1..Len(r.all) : ~Exposes(r.all[i])
  /\ \A k \in 1..Len(dualResult) : ~Exposes(dualResult[k])
  /\ \A k \in 1..Len(encryptedTransactions) :
       \A i \in 1..Len(encryptedTransactions[k]) :
         ~Exposes(encryptedTransactions[k][i])
  /\ \A k \in 1..Len(verifyResult) : ~Exposes(verifyResult[k])
  /\ \A k \in 1..Len(sumResult) : ~Exposes(sumResult[k])
  /\ \A k \in 1..Len(report) :
       \A i \in 1..Len(report[k].publicBulletinBoard) :
         ~Exposes(report[k].publicBulletinBoard[i])

\* the names under which a record holds the amount in the clear
PlaintextFields == {"amount", "originalAmount", "amountInCents"}

\* C23: the record dualEncryptAmount returned, and every record
\* processDualEncryption marked dual_encrypted, holds both ciphertexts and
\* both party identifiers and no field that gives the amount in the clear.
PlaintextNotKept ==
  /\ \A k \in 1..Len(dualResult) :
       ~Has(dualResult[k], "threw") =>
         /\ {"senderEncrypted", "recipientEncrypted", "senderId",
              "recipientId"} \subseteq DOMAIN dualResult[k]
         /\ DOMAIN dualResult[k] \cap PlaintextFields = {}
  /\ \A k \in 1..Len(encryptedTransactions) :
       \A i \in 1..Len(encryptedTransactions[k]) :
         LET tx == encryptedTransactions[k][i]
         IN  (Has(tx, "dual_encrypted") /\ tx.dual_encrypted = TRUE) =>
               /\ {"HE_pk_sender", "HE_pk_recipient", "sender_id",
                    "recipient_id"} \subseteq DOMAIN tx
               /\ DOMAIN tx \cap PlaintextFields = {}

\* the ciphertexts calculateCompanyHomomorphicSum folds for the result r
FoldedCiphertexts(r) ==
  LET IsRelevant(tx) ==
        IF r.direction = "sent" THEN Prop(tx, "sender_id") = r.companyId
        ELSE Prop(tx, "recipient_id") = r.companyId
      relevantTransactions == SelectSeq(Encrypted, IsRelevant)
  IN  [i \in 1..Len(relevantTransactions) |->
         IF r.direction = "sent"
         THEN bigIntProp(relevantTransactions[i], "HE_pk_sender")
         ELSE bigIntProp(relevantTransactions[i], "HE_pk_recipient")]

\* the list in every order
Reorderings(list) ==
  {[i \in 1..Len(list) |-> list[p[i]]] : p \in Permutations(1..Len(list))}

\* the accumulators of the first k and of the other ciphertexts of list,
\* combined with one more homomorphic addition
CombinedParts(list, k, publicKey) ==
  mod(calculatePaillierSum(SubSeq(list, 1, k), publicKey)
        * calculatePaillierSum(SubSeq(list, k + 1, Len(list)), publicKey),
      publicKey.n * publicKey.n)

\* C24 as stated: for every party and direction the fold over the matching
\* ciphertexts gives the same accumulator in every order, and the accumulators
\* of any two parts of the list, an empty part too, combine into the
\* accumulator of the whole list.
OrderIndependenceAnyParts ==
  \A j \in 1..Len(sumResult) :
    LET r == sumResult[j]
    IN  (~Has(r, "threw") /\ r.transactionCount > 0) =>
          LET publicKey == companyLookup[r.companyId].paillierPublicKey
          IN  \A list \in Reorderings(FoldedCiphertexts(r)) :
                /\ calculatePaillierSum(list, publicKey)
                     = bigInt(r.homomorphicSum)
                /\ \A k \in 0..Len(list) :
                     CombinedParts(list, k, publicKey)
                       = bigInt(r.homomorphicSum)

\* C24: for every party and direction the fold over the matching ciphertexts
\* gives the same accumulator in every order, and the accumulators of two
\* parts of the list, neither of them empty, combine into the accumulator of
\* the whole list.
OrderIndependence ==
  \A j \in 1..Len(sumResult) :
    LET r == sumResult[j]
    IN  (~Has(r, "threw") /\ r.transactionCount > 0) =>
          LET publicKey == companyLookup[r.companyId].paillierPublicKey
          IN  \A list \in Reorderings(FoldedCiphertexts(r)) :
                /\ calculatePaillierSum(list, publicKey)
                     = bigInt(r.homomorphicSum)
                /\ \A k \in 1..(Len(list) - 1) :
                     CombinedParts(list, k, publicKey)
                       = bigInt(r.homomorphicSum)

\* two different ciphertexts were folded for one party and direction
OrderIndependenceWitness ==
  /\ sumResult # << >>
  /\ ~Has(sumResult[1], "threw")
  /\ sumResult[1].transactionCount = 2
  /\ FoldedCiphertexts(sumResult[1])[1] # FoldedCiphertexts(sumResult[1])[2]

\* what the two ciphertexts of a batch record decrypt to under the keys of
\* the record's sender and recipient
DecryptedRecord(tx) ==
  LET sender == MapGet(companyLookup, tx.sender_id)
      recipient == MapGet(companyLookup, tx.recipient_id)
  IN  <<tx.dual_encrypted,
        paillierDecrypt(bigIntProp(tx, "HE_pk_sender"),
                        sender.paillierPrivateKey),
        paillierDecrypt(bigIntProp(tx, "HE_pk_recipient"),
                        recipient.paillierPrivateKey)>>

\* C25: whatever dualEncryptAmount, processDualEncryption,
\* verifyDualEncryption, calculateCompanyHomomorphicSum and
\* performYearEndVerification calls were made, in whatever order, the registry
\* is the one the constructor wrote: the same parties under the same keys;
\* and every record of an encrypted batch decrypts, under the sender's and
\* under the recipient's key, to the cents of its own transaction; and when
\* processDualEncryption has returned, the record a transaction would get
\* from the batch taken in any other order, with any randomizers, decrypts
\* to the same plaintexts.
RegistryWrittenOnce ==
  /\ companies = getCompanyKeypairs
  /\ companyLookup = initializeLookup(getCompanyKeypairs, NumCompanies)
  /\ \A k \in 1..Len(encryptedTransactions) :
       /\ \A i \in 1..Len(transactions) :
            LET tx == encryptedTransactions[k][i]
                cents == amountToCents(transactions[i].amount)
            IN  DecryptedRecord(tx) =
                  <<TRUE,
                    cents % MapGet(companyLookup, tx.sender_id)
                              .paillierPublicKey.n,
                    cents % MapGet(companyLookup, tx.recipient_id)
                              .paillierPublicKey.n>>
       /\ (verifyResult = << >> /\ sumResult = << >> /\ report = << >>) =>
          \A order \in Permutations(1..Len(transactions)) :
            \A draws \in {d \in [1..Len(transactions) ->
                                    (1..MaxDraw) \X (1..MaxDraw)] :
                              \A i \in 1..Len(transactions) :
                                d[i] \in DrawPairs(transactions[order[i]])} :
              LET reordered ==
                    processDualEncryption(
                      [i \in 1..Len(transactions) |->
                         transactions[order[i]]], draws)
              IN  \A i \in 1..Len(transactions) :
                    DecryptedRecord(reordered[i]) =
                      DecryptedRecord(encryptedTransactions[k][order[i]])

\* all five operations were called on a batch of two different transactions
RegistryWrittenOnceWitness ==
  /\ Len(transactions) = 2
  /\ transactions[1].amount # transactions[2].amount
  /\ dualResult # << >>
  /\ encryptedTransactions # << >>
  /\ verifyResult # << >>
  /\ sumResult # << >>
  /\ report # << >>
  /\ calls = MaxCalls

\* C26: decrypt and paillierDecrypt return a value in [0, n) for every integer
\* c in [0, n^2), c = 0 and c sharing a factor with n included; what they
\* return for encrypt(m) is m mod n, so that a plaintext up to getMaxValue()
\* comes back as it was, a larger one does not, and m = n comes back as 0.
DecryptionWraps ==
  /\ (cipher.pc = "decryptedGiven"
        /\ cipher.c \in 0..(paillier.n * paillier.n - 1))
       => cipher.returned \in 0..(paillier.n - 1)
  /\ cipher.pc = "decrypted"
       => /\ cipher.returned = cipher.m % paillier.n
          /\ cipher.m <= getMaxValue => cipher.returned = cipher.m
          /\ cipher.m > getMaxValue => cipher.returned # cipher.m
          /\ cipher.m = paillier.n => cipher.returned = 0

\* encrypt(n) was decrypted, and gave 0
DecryptionWrapsWitness ==
  /\ cipher.pc = "decrypted"
  /\ cipher.m = paillier.n
  /\ cipher.returned = 0

\* 0, or a multiple of a prime factor of n, was decrypted
DecryptionTotalWitness ==
  /\ cipher.pc = "decryptedGiven"
  /\ cipher.c \in 0..(paillier.n * paillier.n - 1)
  /\ gcd(cipher.c, paillier.n) # 1
  /\ cipher.returned \in 0..(paillier.n - 1)

\* the plain sum of the reduced cents of the rows
RECURSIVE SumOfCents(_)
SumOfCents(data) ==
  IF Len(data) = 0 THEN 0
  ELSE SumOfCents(SubSeq(data, 1, Len(data) - 1))
         + (amountToCents(data[Len(data)].amount) % paillier.n)

\* C27: encryptAmounts returns one row per row of the sheet, in the sheet's
\* order, and both ciphertext columns of a row decrypt to the row's cents
\* mod n; for every sheet, the empty one included, the decrypted total of
\* calculateHomomorphicSum is the sum of the rows' cents mod n, reduced mod
\* n, and processAccounting's verification passes.
SingleKeySum ==
  /\ cipher.pc \in {"encryptedData", "totalSum", "isVerified"} =>
       /\ Len(cipher.encryptedData) = Len(cipher.data)
       /\ \A i \in 1..Len(cipher.data) :
            LET row == cipher.encryptedData[i]
                cents == amountToCents(cipher.data[i].amount) % paillier.n
            IN  /\ row.num = cipher.data[i].num
                /\ row.amount = cipher.data[i].amount
                /\ decrypt(bigIntProp(row, "HE_pk_sender")) = cents
                /\ decrypt(bigIntProp(row, "HE_pk_recipient")) = cents
  /\ cipher.pc = "isVerified" =>
       /\ cipher.decryptedSum = SumOfCents(cipher.data) % paillier.n
       /\ cipher.isVerified

\* a sheet of two rows whose cents add up past n was verified
SingleKeySumWitness ==
  /\ cipher.pc = "isVerified"
  /\ Len(cipher.data) = 2
  /\ SumOfCents(cipher.data) >= paillier.n
  /\ cipher.decryptedSum # 0
  /\ cipher.isVerified

\* the empty sheet was verified
EmptySheetWitness ==
  /\ cipher.pc = "isVerified"
  /\ cipher.data = << >>
  /\ cipher.totalSum = 0
  /\ cipher.isVerified

\* C28: processDualEncryption returns one record per transaction of the
\* batch, in the batch's order, each carrying its transaction's own fields; a
\* transaction without sender_id or recipient_id comes back as it was; one
\* with an unknown sender or recipient comes back with dual_encrypted false,
\* an encryption_error and no ciphertext; every other one comes back with
\* dual_encrypted true and both ciphertexts, whatever else is in the batch.
BatchIsolation ==
  \A k \in 1..Len(encryptedTransactions) :
    LET enhancedTransactions == encryptedTransactions[k]
    IN  /\ Len(enhancedTransactions) = Len(transactions)
        /\ \A i \in 1..Len(transactions) :
             LET transaction == transactions[i]
                 enhanced == enhancedTransactions[i]
                 senderId == Prop(transaction, "sender_id")
                 recipientId == Prop(transaction, "recipient_id")
             IN  /\ \A f \in DOMAIN transaction :
                      Has(enhanced, f) /\ enhanced[f] = transaction[f]
                 /\ IF senderId = undefined \/ recipientId = undefined
                    THEN DOMAIN enhanced = DOMAIN transaction
                    ELSE IF ~MapHas(companyLookup, senderId)
                              \/ ~MapHas(companyLookup, recipientId)
                    THEN /\ enhanced.dual_encrypted = FALSE
                         /\ Has(enhanced, "encryption_error")
                         /\ ~Has(enhanced, "HE_pk_sender")
                         /\ ~Has(enhanced, "HE_pk_recipient")
                    ELSE /\ enhanced.dual_encrypted = TRUE
                         /\ ~Has(enhanced, "encryption_error")
                         /\ bigIntProp(enhanced, "HE_pk_sender") \in
                              1..(MapGet(companyLookup, senderId)
                                    .paillierPublicKey.n ^ 2 - 1)
                         /\ bigIntProp(enhanced, "HE_pk_recipient") \in
                              1..(MapGet(companyLookup, recipientId)
                                    .paillierPublicKey.n ^ 2 - 1)

\* a transaction was encrypted after one with an unknown party had failed
BatchIsolationWitness ==
  /\ encryptedTransactions # << >>
  /\ Len(transactions) >= 2
  /\ Has(Encrypted[1], "encryption_error")
  /\ Has(Encrypted[2], "dual_encrypted")
  /\ Encrypted[2].dual_encrypted = TRUE

\* how many of the transactions a company's statements count as sent, or as
\* received, all companies together
RECURSIVE CountedBy(_, _, _)
CountedBy(statements, direction, i) ==
  IF i = 0 THEN 0
  ELSE CountedBy(statements, direction, i - 1)
         + statements[i].transactionCounts[direction]

\* C29: every transaction that processDualEncryption marked dual_encrypted
\* is in the sent accumulation of exactly one company and in the received
\* accumulation of exactly one company, verifyDualEncryption gives the
\* company that sent it and the company that received it a role other than
\* third party, and the companies' sent counts and received counts of a
\* year-end verification each add up to the number of encrypted transactions.
AccountedOnBothSides ==
  \A k \in 1..Len(report) :
    LET txs == successfulEncryptions
        InAccumulation(tx, i, direction) ==
          LET sum == calculateCompanyHomomorphicSum(txs, companies[i].id,
                                                    direction)
          IN  /\ Has(sum, "transactions")
              /\ \E j \in 1..Len(sum.transactions) :
                   sum.transactions[j].id = tx.num
        statements ==
          [i \in 1..Len(companies) |->
             generateCompanyFinancialStatement(companies[i], txs)]
    IN  /\ \A t \in 1..Len(txs) :
             /\ Cardinality({i \in 1..Len(companies) :
                               InAccumulation(txs[t], i, "sent")}) = 1
             /\ Cardinality({i \in 1..Len(companies) :
                               InAccumulation(txs[t], i, "received")}) = 1
             /\ verifyDualEncryption(
                  txs[t], MapGet(companyLookup, txs[t].sender_id).id).role
                  # "third_party"
             /\ verifyDualEncryption(
                  txs[t], MapGet(companyLookup, txs[t].recipient_id).id).role
                  # "third_party"
        /\ CountedBy(statements, "sent", Len(statements)) = Len(txs)
        /\ CountedBy(statements, "received", Len(statements)) = Len(txs)
        /\ report[k].totalTransactions = Len(txs)

\* the plain product of a list of ciphertexts
RECURSIVE ProductOf(_)
ProductOf(list) ==
  IF Len(list) = 0 THEN 1
  ELSE ProductOf(SubSeq(list, 1, Len(list) - 1)) * list[Len(list)]

\* c is a non-zero residue modulo n^2 that shares no factor with n
UnitInRange(c, n) == c \in 1..(n * n - 1) /\ gcd(c, n) = 1

\* C30: every ciphertext paillierEncrypt returned, and every running value
\* of calculatePaillierSum over such ciphertexts, is in [1, n^2 - 1] and
\* coprime to n, so no running value is the start marker 0; the result for
\* a list that is not empty is the product of its elements mod n^2.
CiphertextsAreUnits ==
  /\ \A k \in 1..Len(encryptedTransactions) :
       \A i \in 1..Len(encryptedTransactions[k]) :
         LET tx == encryptedTransactions[k][i]
         IN  IsDualEncrypted(tx) =>
               /\ UnitInRange(bigIntProp(tx, "HE_pk_sender"),
                              bigInt(tx.dual_encryption_metadata
                                       .senderPaillierN))
               /\ UnitInRange(bigIntProp(tx, "HE_pk_recipient"),
                              bigInt(tx.dual_encryption_metadata
                                       .recipientPaillierN))
  /\ \A j \in 1..Len(sumResult) :
       LET r == sumResult[j]
       IN  (~Has(r, "threw") /\ r.transactionCount > 0) =>
             LET publicKey == companyLookup[r.companyId].paillierPublicKey
                 list == FoldedCiphertexts(r)
                 Running(i) ==
                   calculatePaillierSum(SubSeq(list, 1, i), publicKey)
             IN  /\ \A i \in 1..Len(list) :
                      /\ UnitInRange(Running(i), publicKey.n)
                      /\ Running(i) = ProductOf(SubSeq(list, 1, i))
                                        % (publicKey.n * publicKey.n)
                 /\ bigInt(r.homomorphicSum)
                      = ProductOf(list) % (publicKey.n * publicKey.n)

\* two ciphertexts whose product is past n^2 were folded
CiphertextsAreUnitsWitness ==
  /\ sumResult # << >>
  /\ ~Has(sumResult[1], "threw")
  /\ sumResult[1].transactionCount = 2
  /\ ProductOf(FoldedCiphertexts(sumResult[1]))
       >= companyLookup[sumResult[1].companyId].paillierPublicKey.n ^ 2

====
